---- MODULE Spec2Model ----
(***************************************************************************)
(* Model of the meeting-assistant backend: the persistence manager         *)
(* (backend/app/db.py) over SQLite connections, and the chunking step of   *)
(* the transcript pipeline (backend/app/transcript_processor.py).          *)
(*                                                                         *)
(* Every DatabaseManager call opens its own connection.  The model keeps   *)
(* the committed tables, the working copy of the one connection that       *)
(* holds SQLite's write lock, and the set of connections that hold a read  *)
(* lock inside an open transaction.                                        *)
(***************************************************************************)
EXTENDS Integers, Sequences, FiniteSets, TLC

VARIABLES
    clock,              \* datetime.utcnow(), as a counter
    tasks,              \* per coroutine: the DatabaseManager call in flight
    writer,             \* the connection holding the write lock, or NoTask
    readers,            \* connections holding a read lock in a transaction
    work,               \* uncommitted tables of the writer
    meetings,           \* table meetings
    summary_processes,  \* table summary_processes
    transcript_chunks,  \* table transcript_chunks
    transcripts,        \* table transcripts
    lastOp,             \* the call that ended last, with its outcome
    chunkRun,           \* the process_transcript call in flight, or the last one
    jiraRun,            \* the extract_jira_tasks call in flight, or the last one
    settings,           \* table settings
    transcript_settings, \* table transcript_settings
    jira_settings,      \* table jira_settings
    hub                 \* the ConnectionManager and its calls in flight

dbVars == <<clock, tasks, writer, readers, work, meetings, summary_processes,
            transcript_chunks, transcripts, lastOp, settings, transcript_settings,
            jira_settings>>
vars == <<clock, tasks, writer, readers, work, meetings, summary_processes,
          transcript_chunks, transcripts, lastOp, chunkRun, jiraRun, settings,
          transcript_settings, jira_settings, hub>>

----------------------------------------------------------------------------
(* Bounds *)

MaxClock == 3          \* number of calls started in one behaviour

Tasks == {"t1", "t2"}
MeetingIds == {"m1", "m2"}
NoTask == "none"

----------------------------------------------------------------------------
(* Optional values: None / NULL is the empty tuple *)

None == <<>>
Some(v) == <<v>>

(* Strings whose characters matter are tuples of one-character strings. *)
PENDING == <<"P", "E", "N", "D", "I", "N", "G">>
COMPLETED == <<"C", "O", "M", "P", "L", "E", "T", "E", "D">>
FAILED == <<"F", "A", "I", "L", "E", "D">>

LowerLetters == <<"a", "b", "c", "d", "e", "f", "g", "h", "i", "j", "k", "l", "m",
                  "n", "o", "p", "q", "r", "s", "t", "u", "v", "w", "x", "y", "z">>
UpperLetters == <<"A", "B", "C", "D", "E", "F", "G", "H", "I", "J", "K", "L", "M",
                  "N", "O", "P", "Q", "R", "S", "T", "U", "V", "W", "X", "Y", "Z">>

\* str.upper(), character by character
upper(s) ==
    [i \in DOMAIN s |->
        IF \E k \in DOMAIN LowerLetters : LowerLetters[k] = s[i]
        THEN UpperLetters[CHOOSE k \in DOMAIN LowerLetters : LowerLetters[k] = s[i]]
        ELSE s[i]]

(* Long strings are kept run-length encoded: a tuple of runs <<char, count>>. *)
MaxErrorLen == 1000

RECURSIVE len(_)
len(s) == IF s = <<>> THEN 0 ELSE s[1][2] + len(Tail(s))

\* str.replace(old, new) for a one-character old and a one-character new
replace_char(s, old, new) ==
    [i \in DOMAIN s |-> IF s[i][1] = old THEN <<new, s[i][2]>> ELSE s[i]]

\* str.replace(old, '') for a one-character old
RECURSIVE remove_char(_, _)
remove_char(s, old) ==
    IF s = <<>> THEN <<>>
    ELSE IF s[1][1] = old THEN remove_char(Tail(s), old)
         ELSE <<s[1]>> \o remove_char(Tail(s), old)

\* s[:n]
RECURSIVE prefix(_, _)
prefix(s, n) ==
    IF s = <<>> \/ n <= 0 THEN <<>>
    ELSE IF s[1][2] <= n THEN <<s[1]>> \o prefix(Tail(s), n - s[1][2])
         ELSE << <<s[1][1], n>> >>

\* the mutant: only the line feeds are replaced
sanitized_error_newline_only(error) == replace_char(error, "\n", " ")

\* str(error).replace('\n', ' ').replace('\r', '')[:1000]
sanitized_error(error) ==
    prefix(remove_char(replace_char(error, "\n", " "), "\r"), MaxErrorLen)

(* Dicts handed to json.dumps: the number of items, and whether some value  *)
(* is of a type json cannot encode.                                         *)
EmptyDict == [items |-> 0, bad |-> FALSE]
GoodDict == [items |-> 1, bad |-> FALSE]
BadDict == [items |-> 1, bad |-> TRUE]

serializable(d) == ~d.bad
\* json.dumps(d) of a serializable dict: the JSON text
json_dumps(d) == <<"{", d.items, "}">>

\* truth value of an Optional[Dict] / Optional[str] argument
truthy_dict(o) == o # None /\ o[1].items > 0
truthy_str(o) == o # None /\ len(o[1]) > 0

----------------------------------------------------------------------------
(* Tables.  A table is the sequence of its rows in insertion order; a row   *)
(* is a record of its columns.                                              *)

\* INSERT INTO summary_processes (meeting_id, status, created_at, updated_at,
\* start_time): the remaining columns take their declared defaults
summary_processes_row(meeting_id, status, now) ==
    [meeting_id |-> meeting_id, status |-> status, created_at |-> now,
     updated_at |-> now, error |-> None, result |-> None,
     start_time |-> Some(now), end_time |-> None, chunk_count |-> 0,
     processing_time |-> 0, metadata |-> None]

\* rows a WHERE meeting_id = ? clause selects
where_meeting_id(table, meeting_id) ==
    {i \in DOMAIN table : table[i].meeting_id = meeting_id}

\* rows a WHERE id = ? clause selects (table meetings)
where_id(table, id) == {i \in DOMAIN table : table[i].id = id}

\* the mutant: the statement deletes no row
delete_no_row(table, meeting_id) == table

\* DELETE FROM table WHERE meeting_id = ?
RECURSIVE delete_where_meeting_id(_, _)
delete_where_meeting_id(table, meeting_id) ==
    IF table = <<>> THEN <<>>
    ELSE IF table[1].meeting_id = meeting_id
         THEN delete_where_meeting_id(Tail(table), meeting_id)
         ELSE <<table[1]>> \o delete_where_meeting_id(Tail(table), meeting_id)

\* DELETE FROM meetings WHERE id = ?
RECURSIVE delete_where_id(_, _)
delete_where_id(table, id) ==
    IF table = <<>> THEN <<>>
    ELSE IF table[1].id = id THEN delete_where_id(Tail(table), id)
         ELSE <<table[1]>> \o delete_where_id(Tail(table), id)

\* UPDATE table SET col = val, ... WHERE meeting_id = ?; fields is the list
\* of <<column, value>> assignments, a later one overriding an earlier one
set_fields(row, fields) ==
    [c \in DOMAIN row |->
        IF \E k \in DOMAIN fields : fields[k][1] = c
        THEN fields[CHOOSE k \in DOMAIN fields :
                        /\ fields[k][1] = c
                        /\ \A j \in DOMAIN fields : fields[j][1] = c => j <= k][2]
        ELSE row[c]]

\* the mutant: the WHERE clause is left out
update_every_row(table, meeting_id, fields) ==
    [i \in DOMAIN table |-> set_fields(table[i], fields)]

\* the mutant: an UPDATE that matches no row inserts one
update_or_insert(table, meeting_id, fields) ==
    IF \E i \in DOMAIN table : table[i].meeting_id = meeting_id
    THEN [i \in DOMAIN table |->
             IF table[i].meeting_id = meeting_id THEN set_fields(table[i], fields)
             ELSE table[i]]
    ELSE Append(table, set_fields(summary_processes_row(meeting_id, <<>>, 0), fields))

update_where_meeting_id(table, meeting_id, fields) ==
    [i \in DOMAIN table |->
        IF table[i].meeting_id = meeting_id THEN set_fields(table[i], fields)
        ELSE table[i]]

\* meeting_id TEXT PRIMARY KEY: an INSERT of a key already present fails
primary_key_conflict(table, meeting_id) ==
    where_meeting_id(table, meeting_id) # {}

----------------------------------------------------------------------------
(* Connections, locks and calls in flight *)

EmptyTables == [meetings |-> <<>>, summary_processes |-> <<>>,
                transcript_chunks |-> <<>>, transcripts |-> <<>>,
                settings |-> <<>>, transcript_settings |-> <<>>,
                jira_settings |-> <<>>]

\* the committed database
DB == [meetings |-> meetings, summary_processes |-> summary_processes,
       transcript_chunks |-> transcript_chunks, transcripts |-> transcripts,
       settings |-> settings, transcript_settings |-> transcript_settings,
       jira_settings |-> jira_settings]

NoArg == [status |-> <<>>, result |-> None, error |-> None, chunk_count |-> None,
          processing_time |-> None, metadata |-> None]

Idle == [op |-> "idle", id |-> "", now |-> 0, pc |-> "idle", tc |-> 0, arg |-> NoArg,
         local |-> <<>>]

NoOp == [op |-> "none", id |-> "", now |-> 0, arg |-> NoArg,
         outcome |-> "none", ret |-> "", data |-> None]

\* the call of task t ends: it returned ret (data: the dict it returned), or
\* raised
EndedWith(t, arg, outcome, ret, data) ==
    /\ tasks' = [tasks EXCEPT ![t] = Idle]
    /\ lastOp' = [op |-> tasks[t].op, id |-> tasks[t].id, now |-> tasks[t].now,
                  arg |-> arg, outcome |-> outcome, ret |-> ret, data |-> data]

Ended(t, outcome, ret) == EndedWith(t, tasks[t].arg, outcome, ret, None)

\* conn.rollback() / conn.close(): the locks of t are released and its
\* uncommitted changes are discarded
Release(t) ==
    /\ writer' = IF writer = t THEN NoTask ELSE writer
    /\ work' = IF writer = t THEN EmptyTables ELSE work
    /\ readers' = readers \ {t}

\* the first writing statement of a transaction takes the write lock;
\* tables are the writer's tables after the statement
TakeWriteLock(t, tables) ==
    /\ writer = NoTask
    /\ writer' = t
    /\ work' = tables
    /\ UNCHANGED readers

\* conn.commit(): needs every other read lock released; the writer's tables
\* become the committed ones
CommitTxn(t) ==
    /\ writer = t
    /\ readers \ {t} = {}
    /\ meetings' = work.meetings
    /\ summary_processes' = work.summary_processes
    /\ transcript_chunks' = work.transcript_chunks
    /\ transcripts' = work.transcripts
    /\ settings' = work.settings
    /\ transcript_settings' = work.transcript_settings
    /\ jira_settings' = work.jira_settings
    /\ Release(t)

\* now = datetime.utcnow().isoformat(); async with self._get_connection()
Call(t, op, meeting_id, pc) ==
    /\ tasks[t].op = "idle"
    /\ clock < MaxClock
    /\ clock' = clock + 1
    /\ tasks' = [tasks EXCEPT ![t] = [op |-> op, id |-> meeting_id, now |-> clock + 1,
                                      pc |-> pc, tc |-> 0, arg |-> NoArg,
                                      local |-> <<>>]]
    /\ UNCHANGED <<writer, readers, work, meetings, summary_processes,
                   transcript_chunks, transcripts, lastOp, chunkRun, jiraRun,
                   settings, transcript_settings, jira_settings, hub>>

At(t, op, pc) == tasks[t].op = op /\ tasks[t].pc = pc

Goto(t, pc) == tasks' = [tasks EXCEPT ![t].pc = pc]

----------------------------------------------------------------------------
(* DatabaseManager.create_process *)

create_process_call(t, meeting_id) == Call(t, "create_process", meeting_id, "update")

\* the mutant: the UPDATE does not clear error and result
create_process_fields_keep(now) ==
    << <<"status", PENDING>>, <<"updated_at", now>>, <<"start_time", Some(now)>> >>

\* the mutant: the UPDATE starts the row afresh
create_process_fields_afresh(now) ==
    << <<"status", PENDING>>, <<"updated_at", now>>, <<"start_time", Some(now)>>,
       <<"error", None>>, <<"result", None>>, <<"end_time", None>>,
       <<"chunk_count", 0>>, <<"processing_time", 0>>, <<"metadata", None>> >>

\* UPDATE summary_processes SET status = 'PENDING', updated_at = now,
\* start_time = now, error = NULL, result = NULL WHERE meeting_id = ?
create_process_fields(now) ==
    << <<"status", PENDING>>, <<"updated_at", now>>, <<"start_time", Some(now)>>,
       <<"error", None>>, <<"result", None>> >>

\* the row the INSERT adds when conn.total_changes == 0
create_process_insert_rows(table, meeting_id, now) ==
    Append(table, summary_processes_row(meeting_id, PENDING, now))

create_process_update(t) ==
    /\ At(t, "create_process", "update")
    /\ LET c == tasks[t]
           n == Cardinality(where_meeting_id(summary_processes, c.id))
           w == [DB EXCEPT !.summary_processes =
                     update_where_meeting_id(@, c.id, create_process_fields(c.now))]
       IN /\ TakeWriteLock(t, w)
          /\ tasks' = [tasks EXCEPT ![t].tc = n, ![t].pc = "insert"]
    /\ UNCHANGED <<clock, meetings, summary_processes, transcript_chunks,
                   transcripts, lastOp, chunkRun, jiraRun, settings,
                   transcript_settings, jira_settings, hub>>

\* the mutant: the INSERT is issued whether or not the UPDATE matched a row,
\* into a table that does not refuse a second row of the same key
create_process_insert_duplicate(t) ==
    /\ At(t, "create_process", "insert")
    /\ writer = t
    /\ work' = [work EXCEPT !.summary_processes =
                    create_process_insert_rows(@, tasks[t].id, tasks[t].now)]
    /\ Goto(t, "commit")
    /\ UNCHANGED <<clock, writer, readers, lastOp, meetings,
                   summary_processes, transcript_chunks, transcripts,
                   chunkRun, jiraRun, settings, transcript_settings,
                   jira_settings, hub>>

\* if conn.total_changes == 0: INSERT INTO summary_processes ...
create_process_insert(t) ==
    /\ At(t, "create_process", "insert")
    /\ writer = t
    /\ LET c == tasks[t]
       IN IF c.tc # 0
          THEN /\ Goto(t, "commit")
               /\ UNCHANGED <<writer, readers, work, lastOp>>
          ELSE IF primary_key_conflict(work.summary_processes, c.id)
          THEN \* sqlite3.IntegrityError: rollback and re-raise
               /\ Release(t)
               /\ Ended(t, "raised", "")
          ELSE /\ work' = [work EXCEPT !.summary_processes =
                               create_process_insert_rows(@, c.id, c.now)]
               /\ Goto(t, "commit")
               /\ UNCHANGED <<writer, readers, lastOp>>
    /\ UNCHANGED <<clock, meetings, summary_processes, transcript_chunks,
                   transcripts, chunkRun, jiraRun, settings,
                   transcript_settings, jira_settings, hub>>

create_process_commit(t) ==
    /\ At(t, "create_process", "commit")
    /\ CommitTxn(t)
    /\ Ended(t, "returned", tasks[t].id)
    /\ UNCHANGED <<clock, chunkRun, jiraRun, hub>>

----------------------------------------------------------------------------
(* DatabaseManager.update_process *)

update_process_call(t, meeting_id) == Call(t, "update_process", meeting_id, "update")

\* the mutant: the status is stored upper-cased
update_fields_normalised(arg, now) ==
    LET f0 == << <<"status", upper(arg.status)>>, <<"updated_at", now>> >>
    IN IF upper(arg.status) \in {COMPLETED, FAILED}
       THEN Append(f0, <<"end_time", Some(now)>>)
       ELSE f0

\* the mutant: every column is written, an argument left out as NULL
update_fields_all(arg, now) ==
    LET f0 == << <<"status", arg.status>>, <<"updated_at", now>>,
                 <<"result", IF truthy_dict(arg.result)
                             THEN Some(json_dumps(arg.result[1])) ELSE None>>,
                 <<"error", IF truthy_str(arg.error)
                            THEN Some(sanitized_error(arg.error[1])) ELSE None>>,
                 <<"chunk_count", IF arg.chunk_count # None
                                  THEN arg.chunk_count[1] ELSE 0>>,
                 <<"processing_time", IF arg.processing_time # None
                                      THEN arg.processing_time[1] ELSE 0>>,
                 <<"metadata", IF truthy_dict(arg.metadata) /\ serializable(arg.metadata[1])
                               THEN Some(json_dumps(arg.metadata[1])) ELSE None>> >>
    IN IF upper(arg.status) \in {COMPLETED, FAILED}
       THEN Append(f0, <<"end_time", Some(now)>>)
       ELSE f0

\* the mutant: end_time is stamped only for the exact strings
update_fields_exact_case(arg, now) ==
    LET f0 == << <<"status", arg.status>>, <<"updated_at", now>> >>
        f1 == IF truthy_dict(arg.result)
              THEN Append(f0, <<"result", Some(json_dumps(arg.result[1]))>>)
              ELSE f0
        f2 == IF truthy_str(arg.error)
              THEN Append(f1, <<"error", Some(sanitized_error(arg.error[1]))>>)
              ELSE f1
        f3 == IF arg.chunk_count # None
              THEN Append(f2, <<"chunk_count", arg.chunk_count[1]>>)
              ELSE f2
        f4 == IF arg.processing_time # None
              THEN Append(f3, <<"processing_time", arg.processing_time[1]>>)
              ELSE f3
        f5 == IF truthy_dict(arg.metadata) /\ serializable(arg.metadata[1])
              THEN Append(f4, <<"metadata", Some(json_dumps(arg.metadata[1]))>>)
              ELSE f4
    IN IF arg.status \in {COMPLETED, FAILED}
       THEN Append(f5, <<"end_time", Some(now)>>)
       ELSE f5

\* update_fields / params as the code appends them
update_fields(arg, now) ==
    LET f0 == << <<"status", arg.status>>, <<"updated_at", now>> >>
        f1 == IF truthy_dict(arg.result)
              THEN Append(f0, <<"result", Some(json_dumps(arg.result[1]))>>)
              ELSE f0
        f2 == IF truthy_str(arg.error)
              THEN Append(f1, <<"error", Some(sanitized_error(arg.error[1]))>>)
              ELSE f1
        f3 == IF arg.chunk_count # None
              THEN Append(f2, <<"chunk_count", arg.chunk_count[1]>>)
              ELSE f2
        f4 == IF arg.processing_time # None
              THEN Append(f3, <<"processing_time", arg.processing_time[1]>>)
              ELSE f3
        f5 == IF truthy_dict(arg.metadata) /\ serializable(arg.metadata[1])
              THEN Append(f4, <<"metadata", Some(json_dumps(arg.metadata[1]))>>)
              ELSE f4
        f6 == IF upper(arg.status) \in {COMPLETED, FAILED}
              THEN Append(f5, <<"end_time", Some(now)>>)
              ELSE f5
    IN f6

\* the mutant: a result that cannot be serialized is not fatal
result_not_serializable_ignored(arg) == FALSE

\* the mutant: metadata that cannot be serialized is fatal as well
any_not_serializable(arg) ==
    \/ truthy_dict(arg.result) /\ ~serializable(arg.result[1])
    \/ truthy_dict(arg.metadata) /\ ~serializable(arg.metadata[1])

\* json.dumps(result) raises: ValueError("Result data cannot be JSON serialized")
result_not_serializable(arg) ==
    truthy_dict(arg.result) /\ ~serializable(arg.result[1])

update_process_update(t, arg) ==
    /\ At(t, "update_process", "update")
    /\ LET c == tasks[t]
           n == Cardinality(where_meeting_id(summary_processes, c.id))
           w == [DB EXCEPT !.summary_processes =
                     update_where_meeting_id(@, c.id, update_fields(arg, c.now))]
       IN IF result_not_serializable(arg)
          THEN \* raised before any statement ran: rollback and re-raise
               /\ Release(t)
               /\ EndedWith(t, arg, "raised", "", None)
          ELSE /\ TakeWriteLock(t, w)
               /\ tasks' = [tasks EXCEPT ![t].arg = arg, ![t].tc = n,
                                         ![t].pc = "commit"]
               /\ UNCHANGED lastOp
    /\ UNCHANGED <<clock, meetings, summary_processes, transcript_chunks,
                   transcripts, chunkRun, jiraRun, settings,
                   transcript_settings, jira_settings, hub>>

update_process_commit(t) ==
    /\ At(t, "update_process", "commit")
    /\ CommitTxn(t)
    /\ Ended(t, "returned", "None")
    /\ UNCHANGED <<clock, chunkRun, jiraRun, hub>>

----------------------------------------------------------------------------
(* DatabaseManager.save_meeting: synchronous, it runs without yielding to   *)
(* another coroutine                                                        *)

meetings_row(id, title, now) ==
    [id |-> id, title |-> title, created_at |-> now, updated_at |-> now]

save_meeting(meeting_id, title) ==
    /\ clock < MaxClock
    /\ clock' = clock + 1
    /\ LET existing == {i \in DOMAIN meetings :
                            meetings[i].id = meeting_id \/ meetings[i].title = title}
           ended(outcome, ret) ==
               [op |-> "save_meeting", id |-> meeting_id, now |-> clock + 1,
                arg |-> NoArg, outcome |-> outcome, ret |-> ret, data |-> None]
       IN IF writer # NoTask \/ readers # {} \/ existing # {}
          THEN \* database is locked, or the meeting already exists
               /\ lastOp' = ended("raised", "")
               /\ UNCHANGED meetings
          ELSE /\ meetings' = Append(meetings, meetings_row(meeting_id, title, clock + 1))
               /\ lastOp' = ended("returned", "True")
    /\ UNCHANGED <<tasks, writer, readers, work, summary_processes,
                   transcript_chunks, transcripts, chunkRun, jiraRun,
                   settings, transcript_settings, jira_settings, hub>>

----------------------------------------------------------------------------
(* DatabaseManager.update_meeting_summary *)

update_meeting_summary_call(t, meeting_id) ==
    Call(t, "update_meeting_summary", meeting_id, "select")

\* SELECT id FROM meetings WHERE id = ?
update_meeting_summary_select(t) ==
    /\ At(t, "update_meeting_summary", "select")
    /\ IF where_id(meetings, tasks[t].id) = {}
       THEN \* ValueError: meeting not found
            /\ Ended(t, "raised", "")
       ELSE /\ Goto(t, "update")
            /\ UNCHANGED lastOp
    /\ UNCHANGED <<clock, writer, readers, work, meetings, summary_processes,
                   transcript_chunks, transcripts, chunkRun, jiraRun,
                   settings, transcript_settings, jira_settings, hub>>

\* UPDATE summary_processes SET result = ?, updated_at = ? WHERE meeting_id = ?
\* UPDATE meetings SET updated_at = ? WHERE id = ?
update_meeting_summary_update(t, summary) ==
    /\ At(t, "update_meeting_summary", "update")
    /\ LET c == tasks[t]
           fields == << <<"result", Some(json_dumps(summary))>>,
                        <<"updated_at", c.now>> >>
           w == [DB EXCEPT
                    !.summary_processes = update_where_meeting_id(@, c.id, fields),
                    !.meetings = [i \in DOMAIN @ |->
                                     IF @[i].id = c.id
                                     THEN [@[i] EXCEPT !.updated_at = c.now]
                                     ELSE @[i]]]
       IN IF ~serializable(summary)
          THEN \* json.dumps(summary) raises TypeError
               /\ Release(t)
               /\ Ended(t, "raised", "")
          ELSE /\ TakeWriteLock(t, w)
               /\ Goto(t, "commit")
               /\ UNCHANGED lastOp
    /\ UNCHANGED <<clock, meetings, summary_processes, transcript_chunks,
                   transcripts, chunkRun, jiraRun, settings,
                   transcript_settings, jira_settings, hub>>

update_meeting_summary_commit(t) ==
    /\ At(t, "update_meeting_summary", "commit")
    /\ CommitTxn(t)
    /\ Ended(t, "returned", "True")
    /\ UNCHANGED <<clock, chunkRun, jiraRun, hub>>

----------------------------------------------------------------------------
(* DatabaseManager.delete_meeting *)

delete_meeting_call(t, meeting_id) == Call(t, "delete_meeting", meeting_id, "select")

\* BEGIN TRANSACTION; SELECT id FROM meetings WHERE id = ?
delete_meeting_select(t) ==
    /\ At(t, "delete_meeting", "select")
    /\ IF where_id(meetings, tasks[t].id) = {}
       THEN \* not found: rollback, return False
            /\ Ended(t, "returned", "False")
            /\ UNCHANGED readers
       ELSE \* the transaction keeps its read lock
            /\ readers' = readers \cup {t}
            /\ Goto(t, "delete")
            /\ UNCHANGED lastOp
    /\ UNCHANGED <<clock, writer, work, meetings, summary_processes,
                   transcript_chunks, transcripts, chunkRun, jiraRun,
                   settings, transcript_settings, jira_settings, hub>>

\* the four DELETE statements
delete_meeting_delete(t) ==
    /\ At(t, "delete_meeting", "delete")
    /\ LET c == tasks[t]
           rowcount == Cardinality(where_id(meetings, c.id))
           w == [DB EXCEPT
                    !.meetings = delete_where_id(meetings, c.id),
                    !.summary_processes = delete_where_meeting_id(summary_processes, c.id),
                    !.transcript_chunks = delete_where_meeting_id(transcript_chunks, c.id),
                    !.transcripts = delete_where_meeting_id(transcripts, c.id)]
       IN /\ writer = NoTask
          /\ IF rowcount = 0
             THEN \* rollback, return False
                  /\ Release(t)
                  /\ Ended(t, "returned", "False")
             ELSE /\ TakeWriteLock(t, w)
                  /\ Goto(t, "commit")
                  /\ UNCHANGED lastOp
    /\ UNCHANGED <<clock, meetings, summary_processes, transcript_chunks,
                   transcripts, chunkRun, jiraRun, settings,
                   transcript_settings, jira_settings, hub>>

delete_meeting_commit(t) ==
    /\ At(t, "delete_meeting", "commit")
    /\ CommitTxn(t)
    /\ Ended(t, "returned", "True")
    /\ UNCHANGED <<clock, chunkRun, jiraRun, hub>>

----------------------------------------------------------------------------
(* sqlite3.OperationalError "database is locked": the statement of t needs  *)
(* a lock another connection holds and the busy timeout of the connection   *)
(* expires.  The handler rolls back; delete_meeting returns False, every    *)
(* other call re-raises.                                                    *)

Blocked(t) ==
    \/ tasks[t].pc \in {"update", "delete"} /\ writer \notin {NoTask, t}
    \/ tasks[t].pc = "commit" /\ readers \ {t} # {}

\* the mutant: the handler logs the error and the call returns normally
Busy_swallowed(t) ==
    /\ Blocked(t)
    /\ Release(t)
    /\ Ended(t, "returned", tasks[t].id)
    /\ UNCHANGED <<clock, meetings, summary_processes, transcript_chunks,
                   transcripts, chunkRun, jiraRun, settings,
                   transcript_settings, jira_settings, hub>>

Busy(t) ==
    /\ Blocked(t)
    /\ Release(t)
    /\ IF tasks[t].op = "delete_meeting"
       THEN Ended(t, "returned", "False")
       ELSE Ended(t, "raised", "")
    /\ UNCHANGED <<clock, meetings, summary_processes, transcript_chunks,
                   transcripts, chunkRun, jiraRun, settings,
                   transcript_settings, jira_settings, hub>>

----------------------------------------------------------------------------
(* Arguments of update_process *)

completed_lower == <<"c", "o", "m", "p", "l", "e", "t", "e", "d">>
Failed_mixed == <<"F", "a", "i", "l", "e", "d">>
processing == <<"p", "r", "o", "c", "e", "s", "s", "i", "n", "g">>

Statuses == {COMPLETED, FAILED, completed_lower, Failed_mixed, processing}

\* "line1\nline2\r" and "\n" + "x" * 2000, run-length encoded
ShortError == << <<"a", 5>>, <<"\n", 1>>, <<"b", 5>>, <<"\r", 1>> >>
LongError == << <<"\n", 1>>, <<"x", 2000>> >>
EmptyError == <<>>

UpdateArg(status, result, error, chunk_count, processing_time, metadata) ==
    [status |-> status, result |-> result, error |-> error,
     chunk_count |-> chunk_count, processing_time |-> processing_time,
     metadata |-> metadata]

\* the calls the lifecycle specification makes
UpdateCases ==
    { UpdateArg(COMPLETED, Some(GoodDict), None, Some(3), Some(2), Some(GoodDict)),
      UpdateArg(FAILED, None, Some(ShortError), None, None, None),
      UpdateArg(completed_lower, Some(BadDict), None, None, None, None),
      UpdateArg(processing, None, None, Some(0), None, Some(BadDict)) }

Summaries == {GoodDict, BadDict}
Titles == {"a", "b"}

----------------------------------------------------------------------------
(* The process lifecycle under concurrent calls *)

NoChunkRun ==
    [pc |-> "none", model |-> "", model_name |-> <<>>, api_key |-> "",
     env_key |-> "",
     args |-> [chunk_size |-> 0, overlap |-> 0],
     text |-> <<>>, chunk_size |-> 0, overlap |-> 0, outcome |-> "none",
     chunks |-> <<>>, i |-> 0, requests |-> <<>>, responses |-> <<>>,
     active_clients |-> <<>>, all_json_data |-> <<>>, ret |-> "none",
     num_chunks |-> 0,
     stream |-> [parts |-> <<>>, fails |-> ""], consumed |-> 0,
     full_response |-> <<>>, validations |-> <<>>, streamed |-> 0,
     summary |-> [ImmediateActionItems |-> <<>>, NextSteps |-> <<>>],
     warnings |-> <<>>]

NoError == [type |-> "", message |-> <<>>]

NoJiraRun ==
    [pc |-> "none", op |-> "", model |-> "", model_name |-> <<>>, api_key |-> "",
     env_key |-> "", requests |-> <<>>, error |-> NoError, fallback |-> "none",
     content |-> <<>>, tasks |-> <<>>, result |-> <<>>, ret |-> "none",
     raised |-> "", active_clients |-> <<>>, cleaned |-> <<>>]

----------------------------------------------------------------------------
(* ConnectionManager (backend/app/websocket_hub.py): its fields             *)

Sockets == {"w1", "w2"}
ConnectionIds == {"c1", "c2"}
Senders == {"s1"}

\* a coroutine of the hub: the handler of a socket, or a sender
NoHubCall ==
    [op |-> "idle", pc |-> "idle", ws |-> "", connection_id |-> "", message |-> 0,
     i |-> 0, size |-> 0, msg |-> 0, sent_indices |-> <<>>, sent |-> <<>>,
     results |-> <<>>, delivered_to |-> {}, started |-> <<>>, broke |-> FALSE,
     requested |-> <<>>, active |-> {}]

\* the hub call that ended last: what it was given and what it left
NoHubOp ==
    [op |-> "none", caller |-> "", connection_id |-> "", message |-> 0,
     ret |-> "none", queued |-> FALSE, results |-> <<>>, delivered_to |-> {},
     sent |-> <<>>, started |-> <<>>, before |-> <<>>, after |-> <<>>,
     broke |-> FALSE, connected |-> {}, requested |-> <<>>, active |-> {}]

\* __init__: no connection, no pending message
NoHub ==
    [active_connections |-> <<>>, connection_info |-> {}, pending_messages |-> <<>>,
     open |-> {}, delivered |-> <<>>,
     calls |-> [c \in Sockets \cup Senders |-> NoHubCall], last |-> NoHubOp]

Init ==
    /\ clock = 0
    /\ tasks = [t \in Tasks |-> Idle]
    /\ writer = NoTask
    /\ readers = {}
    /\ work = EmptyTables
    /\ meetings = <<>>
    /\ summary_processes = <<>>
    /\ transcript_chunks = <<>>
    /\ transcripts = <<>>
    /\ lastOp = NoOp
    /\ chunkRun = NoChunkRun
    /\ jiraRun = NoJiraRun
    /\ settings = <<>>
    /\ transcript_settings = <<>>
    /\ jira_settings = <<>>
    /\ hub = NoHub

Next ==
    \/ \E t \in Tasks, m \in MeetingIds : create_process_call(t, m)
    \/ \E t \in Tasks : create_process_update(t)
    \/ \E t \in Tasks : create_process_insert(t)
    \/ \E t \in Tasks : create_process_commit(t)
    \/ \E t \in Tasks, m \in MeetingIds : update_process_call(t, m)
    \/ \E t \in Tasks, arg \in UpdateCases : update_process_update(t, arg)
    \/ \E t \in Tasks : update_process_commit(t)
    \/ \E m \in MeetingIds, title \in Titles : save_meeting(m, title)
    \/ \E t \in Tasks, m \in MeetingIds : update_meeting_summary_call(t, m)
    \/ \E t \in Tasks : update_meeting_summary_select(t)
    \/ \E t \in Tasks, summary \in Summaries : update_meeting_summary_update(t, summary)
    \/ \E t \in Tasks : update_meeting_summary_commit(t)
    \/ \E t \in Tasks, m \in MeetingIds : delete_meeting_call(t, m)
    \/ \E t \in Tasks : delete_meeting_select(t)
    \/ \E t \in Tasks : delete_meeting_delete(t)
    \/ \E t \in Tasks : delete_meeting_commit(t)
    \/ \E t \in Tasks : Busy(t)

Spec == Init /\ [][Next]_vars

----------------------------------------------------------------------------
(* Properties of the process lifecycle *)

ProcessRows(table, m) == {i \in DOMAIN table : table[i].meeting_id = m}
HasProcess(table, m) == ProcessRows(table, m) # {}
ProcessRow(table, m) == table[CHOOSE i \in DOMAIN table : table[i].meeting_id = m]

\* C1: in every reachable state the summary_processes table holds at most
\* one row for each meeting id, whatever create_process, update_process,
\* update_meeting_summary and delete_meeting calls have run.
C1_AtMostOneProcessRow ==
    \A m \in MeetingIds : Cardinality(ProcessRows(summary_processes, m)) <= 1

\* a second create_process for a meeting has returned and its row is the
\* single row of that meeting
C1_Witness ==
    /\ lastOp.op = "create_process"
    /\ lastOp.outcome = "returned"
    /\ Cardinality(ProcessRows(summary_processes, lastOp.id)) = 1
    /\ ProcessRow(summary_processes, lastOp.id).created_at # lastOp.now

\* C2: when create_process(id) returns, it returns id, and exactly one row
\* exists for id, with status PENDING, error and result NULL, and start_time
\* and updated_at equal to the time of this call; this holds whether or not
\* a row existed before, in whatever state.
C2_CreateProcessResult ==
    (lastOp.op = "create_process" /\ lastOp.outcome = "returned") =>
        /\ lastOp.ret = lastOp.id
        /\ Cardinality(ProcessRows(summary_processes, lastOp.id)) = 1
        /\ LET r == ProcessRow(summary_processes, lastOp.id)
           IN /\ r.status = PENDING
              /\ r.error = None
              /\ r.result = None
              /\ r.start_time = Some(lastOp.now)
              /\ r.updated_at = lastOp.now

\* create_process has returned for a meeting whose row was left by an
\* earlier run that had ended (end_time set)
C2_Witness ==
    /\ lastOp.op = "create_process"
    /\ lastOp.outcome = "returned"
    /\ HasProcess(summary_processes, lastOp.id)
    /\ LET r == ProcessRow(summary_processes, lastOp.id)
       IN r.end_time # None /\ r.created_at < lastOp.now /\ r.status = PENDING

StatusChanged(m) ==
    /\ HasProcess(summary_processes, m)
    /\ HasProcess(summary_processes', m)
    /\ ProcessRow(summary_processes', m).status # ProcessRow(summary_processes, m).status

Created(m) == ~HasProcess(summary_processes, m) /\ HasProcess(summary_processes', m)

\* C3 as claimed: the status of a row only moves from PENDING to COMPLETED or
\* FAILED, or back to PENDING, and never leaves {PENDING, COMPLETED, FAILED}.
C3_Original ==
    [][\A m \in MeetingIds :
        /\ StatusChanged(m) =>
              LET old == ProcessRow(summary_processes, m).status
                  new == ProcessRow(summary_processes', m).status
              IN \/ old = PENDING /\ new \in {COMPLETED, FAILED}
                 \/ new = PENDING
        /\ Created(m) => ProcessRow(summary_processes', m).status = PENDING]_vars

\* C3 as amended: a row is created with status PENDING, by create_process
\* only; its status changes only when create_process returns for that
\* meeting, to PENDING, or when update_process returns for that meeting, to
\* exactly the status string the caller passed, whatever the status was.
C3_StatusTransitions ==
    [][\A m \in MeetingIds :
        /\ StatusChanged(m) =>
              /\ lastOp'.id = m
              /\ lastOp'.outcome = "returned"
              /\ \/ /\ lastOp'.op = "create_process"
                    /\ ProcessRow(summary_processes', m).status = PENDING
                 \/ /\ lastOp'.op = "update_process"
                    /\ ProcessRow(summary_processes', m).status = lastOp'.arg.status
        /\ Created(m) =>
              /\ lastOp'.op = "create_process"
              /\ lastOp'.id = m
              /\ ProcessRow(summary_processes', m).status = PENDING]_vars

\* update_process has returned and the row holds a status outside
\* {PENDING, COMPLETED, FAILED}, the one the caller passed
C3_Witness ==
    /\ lastOp.op = "update_process"
    /\ lastOp.outcome = "returned"
    /\ HasProcess(summary_processes, lastOp.id)
    /\ ProcessRow(summary_processes, lastOp.id).status = lastOp.arg.status
    /\ lastOp.arg.status \notin {PENDING, COMPLETED, FAILED}

\* a create_process call of task t is in flight together with a
\* create_process call of another task for the same meeting
Overlapping(t) ==
    /\ tasks[t].op = "create_process"
    /\ \E u \in Tasks \ {t} :
          tasks[u].op = "create_process" /\ tasks[u].id = tasks[t].id

\* C4 as claimed: when two create_process calls for one meeting interleave,
\* both complete without error and exactly one PENDING row remains.
C4_Original ==
    /\ ~ \E u \in Tasks :
            /\ writer = u
            /\ tasks[u].op = "create_process"
            /\ lastOp.op = "create_process"
            /\ lastOp.id = tasks[u].id
            /\ lastOp.outcome = "raised"
    /\ \A m \in MeetingIds :
          (lastOp.op = "create_process" /\ lastOp.id = m) =>
              /\ Cardinality(ProcessRows(summary_processes, m)) <= 1
              /\ HasProcess(summary_processes, m) =>
                    ProcessRow(summary_processes, m).status = PENDING

\* C4 as amended: the write lock serialises two interleaving create_process
\* calls for one meeting.  The call that ends first either commits, leaving
\* exactly one PENDING row with its own times, or fails with "database is
\* locked" while the other call holds the lock, leaving the table as it was;
\* every create_process that returns leaves exactly one PENDING row carrying
\* its own values (the last to commit wins), and no second row is inserted.
C4_Serialised ==
    /\ [][\A t \in Tasks :
            (Overlapping(t) /\ tasks'[t].op = "idle") =>
                LET m == tasks[t].id
                IN /\ lastOp'.op = "create_process" /\ lastOp'.id = m
                   /\ lastOp'.outcome = "raised" =>
                         /\ summary_processes' = summary_processes
                         /\ writer \in Tasks \ {t}
                   /\ lastOp'.outcome = "returned" =>
                         /\ Cardinality(ProcessRows(summary_processes', m)) = 1
                         /\ ProcessRow(summary_processes', m).status = PENDING
                         /\ ProcessRow(summary_processes', m).updated_at = tasks[t].now]_vars
    /\ [](\A m \in MeetingIds :
            (lastOp.op = "create_process" /\ lastOp.id = m
                /\ lastOp.outcome = "returned") =>
                /\ Cardinality(ProcessRows(summary_processes, m)) = 1
                /\ ProcessRow(summary_processes, m).start_time = Some(lastOp.now))

\* two create_process calls for one meeting overlapped and the one started
\* first committed last: the row was inserted by the later call (created_at)
\* and carries the times of the earlier one
C4_Witness ==
    /\ lastOp.op = "create_process"
    /\ lastOp.outcome = "returned"
    /\ HasProcess(summary_processes, lastOp.id)
    /\ LET r == ProcessRow(summary_processes, lastOp.id)
       IN r.created_at > lastOp.now /\ r.updated_at = lastOp.now /\ r.status = PENDING

----------------------------------------------------------------------------
(* update_process over all combinations of its arguments: one coroutine     *)
(* creates and updates the process of one meeting                           *)

\* every status with every result and error; every chunk_count,
\* processing_time and metadata; and a call that supplies everything
UpdateArgs ==
    { UpdateArg(status, result, error, None, None, None) :
        status \in Statuses,
        result \in {None, Some(EmptyDict), Some(GoodDict), Some(BadDict)},
        error \in {None, Some(EmptyError), Some(ShortError), Some(LongError)} }
    \cup
    { UpdateArg(status, None, None, chunk_count, processing_time, metadata) :
        status \in {processing},
        chunk_count \in {None, Some(0), Some(3)},
        processing_time \in {None, Some(2)},
        metadata \in {None, Some(EmptyDict), Some(GoodDict), Some(BadDict)} }
    \cup
    { UpdateArg(FAILED, Some(GoodDict), Some(ShortError), Some(3), Some(2),
                Some(GoodDict)) }

NextUpdate ==
    \/ create_process_call("t1", "m1")
    \/ create_process_update("t1")
    \/ create_process_insert("t1")
    \/ create_process_commit("t1")
    \/ \E m \in MeetingIds : update_process_call("t1", m)
    \/ \E arg \in UpdateArgs : update_process_update("t1", arg)
    \/ update_process_commit("t1")

SpecUpdate == Init /\ [][NextUpdate]_vars

\* the step in which an update_process call returns
UpdateReturns ==
    /\ lastOp' # lastOp
    /\ lastOp'.op = "update_process"
    /\ lastOp'.outcome = "returned"

\* the two characters are the same letter in either case, or the same character
SameLetter(a, b) ==
    \/ a = b
    \/ \E k \in DOMAIN LowerLetters : {a, b} = {LowerLetters[k], UpperLetters[k]}

EqualsIgnoringCase(s, word) ==
    /\ Len(s) = Len(word)
    /\ \A i \in DOMAIN s : SameLetter(s[i], word[i])

Terminal(status) ==
    EqualsIgnoringCase(status, COMPLETED) \/ EqualsIgnoringCase(status, FAILED)

\* C5: update_process is a partial update: the row count and the rows of
\* other meetings stay, and in the row of the meeting meeting_id, created_at
\* and start_time stay, each of result, error, chunk_count, processing_time
\* and metadata the caller did not supply stays, and end_time stays unless
\* the status is terminal.
C5_PartialUpdate ==
    [][UpdateReturns =>
        /\ DOMAIN summary_processes' = DOMAIN summary_processes
        /\ \A i \in DOMAIN summary_processes :
              LET r == summary_processes[i]
                  q == summary_processes'[i]
                  a == lastOp'.arg
              IN IF r.meeting_id # lastOp'.id THEN q = r
                 ELSE /\ q.meeting_id = r.meeting_id
                      /\ q.created_at = r.created_at
                      /\ q.start_time = r.start_time
                      /\ a.result = None => q.result = r.result
                      /\ a.error = None => q.error = r.error
                      /\ a.chunk_count = None => q.chunk_count = r.chunk_count
                      /\ a.processing_time = None => q.processing_time = r.processing_time
                      /\ a.metadata = None => q.metadata = r.metadata
                      /\ ~Terminal(a.status) => q.end_time = r.end_time]_vars

\* an update_process that supplied only a status has returned, and the row
\* still holds the result, error, chunk_count, processing_time, metadata and
\* end_time an earlier update wrote
C5_Witness ==
    /\ lastOp.op = "update_process"
    /\ lastOp.outcome = "returned"
    /\ lastOp.arg.result = None /\ lastOp.arg.error = None
    /\ lastOp.arg.chunk_count = None /\ lastOp.arg.processing_time = None
    /\ lastOp.arg.metadata = None
    /\ ~Terminal(lastOp.arg.status)
    /\ HasProcess(summary_processes, lastOp.id)
    /\ LET r == ProcessRow(summary_processes, lastOp.id)
       IN /\ r.result # None /\ r.error # None /\ r.metadata # None
          /\ r.chunk_count = 3 /\ r.processing_time = 2
          /\ r.end_time # None /\ r.end_time # Some(lastOp.now)
          /\ r.updated_at = lastOp.now

\* C6: an update_process whose result cannot be JSON-serialized raises and
\* leaves every row of summary_processes as it was.
C6_BadResultAborts ==
    [][(/\ lastOp' # lastOp
        /\ lastOp'.op = "update_process"
        /\ lastOp'.arg.result # None
        /\ ~serializable(lastOp'.arg.result[1])) =>
            /\ lastOp'.outcome = "raised"
            /\ summary_processes' = summary_processes]_vars

\* an update_process with a result that cannot be serialized, a terminal
\* status and an error has raised, and the PENDING row is untouched
C6_Witness ==
    /\ lastOp.op = "update_process"
    /\ lastOp.outcome = "raised"
    /\ lastOp.arg.result = Some(BadDict)
    /\ lastOp.arg.status = FAILED
    /\ lastOp.arg.error # None
    /\ HasProcess(summary_processes, lastOp.id)
    /\ LET r == ProcessRow(summary_processes, lastOp.id)
       IN r.status = PENDING /\ r.error = None /\ r.end_time = None
          /\ r.updated_at < lastOp.now

Chars(s) == {s[i][1] : i \in DOMAIN s}

\* C7: the error stored in a process row contains no line feed and no
\* carriage return and is at most 1000 characters long.
C7_StoredErrorSanitized ==
    \A i \in DOMAIN summary_processes :
        LET e == summary_processes[i].error
        IN e # None =>
              /\ "\n" \notin Chars(e[1])
              /\ "\r" \notin Chars(e[1])
              /\ len(e[1]) <= 1000

\* update_process has stored the error "\n" + "x" * 2000, cut to 1000
\* characters
C7_Witness ==
    /\ lastOp.op = "update_process"
    /\ lastOp.outcome = "returned"
    /\ lastOp.arg.error = Some(LongError)
    /\ HasProcess(summary_processes, lastOp.id)
    /\ LET e == ProcessRow(summary_processes, lastOp.id).error
       IN e # None /\ len(e[1]) = 1000 /\ len(lastOp.arg.error[1]) > 1000

\* C8: an update_process that returns sets end_time of the row to the time
\* of the call when the status equals COMPLETED or FAILED ignoring letter
\* case, and leaves end_time as it was for every other status.
C8_EndTimeStamped ==
    [][UpdateReturns =>
        \A i \in DOMAIN summary_processes :
            summary_processes[i].meeting_id = lastOp'.id =>
                summary_processes'[i].end_time =
                    IF Terminal(lastOp'.arg.status) THEN Some(lastOp'.now)
                    ELSE summary_processes[i].end_time]_vars

\* update_process with status 'completed' has stamped end_time
C8_Witness ==
    /\ lastOp.op = "update_process"
    /\ lastOp.outcome = "returned"
    /\ lastOp.arg.status = completed_lower
    /\ HasProcess(summary_processes, lastOp.id)
    /\ ProcessRow(summary_processes, lastOp.id).end_time = Some(lastOp.now)

----------------------------------------------------------------------------
(* Transcript blobs (transcript_chunks), transcript segments (transcripts)  *)
(* and DatabaseManager.get_transcript_data                                   *)

MaxTranscriptLen == 10000000

Whitespace == {" ", "\n", "\r", "\t"}

RECURSIVE lstrip(_)
lstrip(s) == IF s # <<>> /\ s[1] \in Whitespace THEN lstrip(Tail(s)) ELSE s

RECURSIVE rstrip(_)
rstrip(s) ==
    IF s # <<>> /\ s[Len(s)] \in Whitespace THEN rstrip(SubSeq(s, 1, Len(s) - 1)) ELSE s

\* str.strip()
strip(s) == rstrip(lstrip(s))

\* "\n".join(list)
RECURSIVE join(_)
join(list) ==
    IF list = <<>> THEN <<>>
    ELSE IF Len(list) = 1 THEN list[1]
    ELSE list[1] \o <<"\n">> \o join(Tail(list))

\* comparison of TEXT values: character by character, a prefix first
Digits == <<"0", "1", "2", "3", "4", "5", "6", "7", "8", "9">>
code(c) == CHOOSE k \in DOMAIN Digits : Digits[k] = c

RECURSIVE text_less(_, _)
text_less(a, b) ==
    IF b = <<>> THEN FALSE
    ELSE IF a = <<>> THEN TRUE
    ELSE IF a[1] # b[1] THEN code(a[1]) < code(b[1])
    ELSE text_less(Tail(a), Tail(b))

\* the mutant: the rows come in insertion order
order_by_timestamp_unordered(table, rows) ==
    {p \in [1..Cardinality(rows) -> rows] :
        \A i, j \in DOMAIN p : i < j => p[i] < p[j]}

\* ORDER BY timestamp ASC over the selected rows: every order of the rows in
\* which no row precedes one of a smaller timestamp
order_by_timestamp(table, rows) ==
    {p \in [1..Cardinality(rows) -> rows] :
        /\ \A i, j \in DOMAIN p : i # j => p[i] # p[j]
        /\ \A i, j \in DOMAIN p :
              i < j => ~text_less(table[p[j]].timestamp, table[p[i]].timestamp)}

\* [row[0] for row in rows if row[0]]
RECURSIVE nonempty_transcripts(_, _)
nonempty_transcripts(table, p) ==
    IF p = <<>> THEN <<>>
    ELSE IF table[p[1]].transcript # <<>>
         THEN <<table[p[1]].transcript>> \o nonempty_transcripts(table, Tail(p))
         ELSE nonempty_transcripts(table, Tail(p))

first(rows) == CHOOSE i \in rows : \A j \in rows : i <= j

\* status, result, error of the process row, NULL when there is none
process_columns(table, meeting_id) ==
    LET rows == where_meeting_id(table, meeting_id)
    IN IF rows = {}
       THEN [status |-> None, result |-> None, error |-> None]
       ELSE [status |-> Some(table[first(rows)].status),
             result |-> table[first(rows)].result,
             error |-> table[first(rows)].error]

transcript_data(meeting_id, text, p, columns) ==
    [meeting_id |-> meeting_id, transcript_text |-> text, status |-> p.status,
     result |-> p.result, error |-> p.error, columns |-> columns]

(* DatabaseManager.save_meeting_transcript: a coroutine with no await, run  *)
(* to its end by a caller that is in no other call                          *)
save_meeting_transcript(t, meeting_id, transcript, timestamp) ==
    /\ tasks[t].op = "idle"
    /\ clock < MaxClock
    /\ clock' = clock + 1
    /\ LET ended(outcome, ret) ==
               [op |-> "save_meeting_transcript", id |-> meeting_id,
                now |-> clock + 1, arg |-> NoArg, outcome |-> outcome,
                ret |-> ret, data |-> None]
       IN IF writer # NoTask \/ readers # {}
          THEN \* database is locked
               /\ lastOp' = ended("raised", "")
               /\ UNCHANGED transcripts
          ELSE /\ transcripts' = Append(transcripts,
                       [meeting_id |-> meeting_id, transcript |-> transcript,
                        timestamp |-> timestamp])
               /\ lastOp' = ended("returned", "True")
    /\ UNCHANGED <<tasks, writer, readers, work, meetings, summary_processes,
                   transcript_chunks, chunkRun, jiraRun, settings,
                   transcript_settings, jira_settings, hub>>

(* DatabaseManager.save_transcript *)
save_transcript_invalid(meeting_id, transcript_text, chunk_size, overlap) ==
    \/ strip(transcript_text) = <<>>
    \/ chunk_size <= 0 \/ overlap < 0
    \/ Len(transcript_text) > MaxTranscriptLen

save_transcript_call(t, meeting_id, transcript_text, chunk_size, overlap) ==
    /\ tasks[t].op = "idle"
    /\ clock < MaxClock
    /\ clock' = clock + 1
    /\ IF save_transcript_invalid(meeting_id, transcript_text, chunk_size, overlap)
       THEN \* ValueError, before a connection is opened
            /\ lastOp' = [op |-> "save_transcript", id |-> meeting_id,
                          now |-> clock + 1, arg |-> NoArg, outcome |-> "raised",
                          ret |-> "", data |-> None]
            /\ UNCHANGED tasks
       ELSE /\ tasks' = [tasks EXCEPT ![t] =
                    [op |-> "save_transcript", id |-> meeting_id, now |-> clock + 1,
                     pc |-> "update", tc |-> 0, arg |-> NoArg,
                     local |-> [transcript_text |-> transcript_text,
                                chunk_size |-> chunk_size, overlap |-> overlap]]]
            /\ UNCHANGED lastOp
    /\ UNCHANGED <<writer, readers, work, meetings, summary_processes,
                   transcript_chunks, transcripts, chunkRun, jiraRun,
                   settings, transcript_settings, jira_settings, hub>>

\* UPDATE transcript_chunks SET transcript_text = ?, model = ?, ... WHERE meeting_id = ?
save_transcript_update(t) ==
    /\ At(t, "save_transcript", "update")
    /\ LET c == tasks[t]
           n == Cardinality(where_meeting_id(transcript_chunks, c.id))
           fields == << <<"transcript_text", c.local.transcript_text>>,
                        <<"chunk_size", c.local.chunk_size>>,
                        <<"overlap", c.local.overlap>>,
                        <<"created_at", c.now>> >>
           w == [DB EXCEPT !.transcript_chunks =
                     update_where_meeting_id(@, c.id, fields)]
       IN /\ TakeWriteLock(t, w)
          /\ tasks' = [tasks EXCEPT ![t].tc = n, ![t].pc = "insert"]
    /\ UNCHANGED <<clock, meetings, summary_processes, transcript_chunks,
                   transcripts, lastOp, chunkRun, jiraRun, settings,
                   transcript_settings, jira_settings, hub>>

\* if conn.total_changes == 0: INSERT INTO transcript_chunks ...
save_transcript_insert(t) ==
    /\ At(t, "save_transcript", "insert")
    /\ writer = t
    /\ LET c == tasks[t]
       IN IF c.tc # 0
          THEN /\ Goto(t, "commit")
               /\ UNCHANGED <<writer, readers, work, lastOp>>
          ELSE IF primary_key_conflict(work.transcript_chunks, c.id)
          THEN /\ Release(t)
               /\ Ended(t, "raised", "")
          ELSE /\ work' = [work EXCEPT !.transcript_chunks = Append(@,
                               [meeting_id |-> c.id,
                                transcript_text |-> c.local.transcript_text,
                                chunk_size |-> c.local.chunk_size,
                                overlap |-> c.local.overlap,
                                created_at |-> c.now])]
               /\ Goto(t, "commit")
               /\ UNCHANGED <<writer, readers, lastOp>>
    /\ UNCHANGED <<clock, meetings, summary_processes, transcript_chunks,
                   transcripts, chunkRun, jiraRun, settings,
                   transcript_settings, jira_settings, hub>>

save_transcript_commit(t) ==
    /\ At(t, "save_transcript", "commit")
    /\ CommitTxn(t)
    /\ Ended(t, "returned", "None")
    /\ UNCHANGED <<clock, chunkRun, jiraRun, hub>>

(* DatabaseManager.get_transcript_data *)
get_transcript_data_call(t, meeting_id) ==
    Call(t, "get_transcript_data", meeting_id, "chunks")

\* SELECT t.*, p.status, p.result, p.error FROM transcript_chunks t
\* LEFT JOIN summary_processes p ... WHERE t.meeting_id = ?
get_transcript_data_chunks(t) ==
    /\ At(t, "get_transcript_data", "chunks")
    /\ LET c == tasks[t]
           rows == where_meeting_id(transcript_chunks, c.id)
       IN IF rows # {} /\ transcript_chunks[first(rows)].transcript_text # <<>>
          THEN EndedWith(t, c.arg, "returned", "dict",
                   Some(transcript_data(c.id,
                            transcript_chunks[first(rows)].transcript_text,
                            process_columns(summary_processes, c.id),
                            "transcript_chunks")))
          ELSE /\ Goto(t, "transcripts")
               /\ UNCHANGED lastOp
    /\ UNCHANGED <<clock, writer, readers, work, meetings, summary_processes,
                   transcript_chunks, transcripts, chunkRun, jiraRun,
                   settings, transcript_settings, jira_settings, hub>>

\* SELECT transcript, timestamp FROM transcripts WHERE meeting_id = ?
\* ORDER BY timestamp ASC
get_transcript_data_transcripts(t) ==
    /\ At(t, "get_transcript_data", "transcripts")
    /\ LET c == tasks[t]
           rows == where_meeting_id(transcripts, c.id)
       IN \E p \in order_by_timestamp(transcripts, rows) :
            LET transcript_text == join(nonempty_transcripts(transcripts, p))
            IN IF rows # {} /\ transcript_text # <<>>
               THEN /\ tasks' = [tasks EXCEPT
                                    ![t].local = [transcript_text |-> transcript_text],
                                    ![t].pc = "process"]
                    /\ UNCHANGED lastOp
               ELSE Ended(t, "returned", "None")
    /\ UNCHANGED <<clock, writer, readers, work, meetings, summary_processes,
                   transcript_chunks, transcripts, chunkRun, jiraRun,
                   settings, transcript_settings, jira_settings, hub>>

\* SELECT status, result, error FROM summary_processes WHERE meeting_id = ?
get_transcript_data_process(t) ==
    /\ At(t, "get_transcript_data", "process")
    /\ LET c == tasks[t]
       IN EndedWith(t, c.arg, "returned", "dict",
              Some(transcript_data(c.id, c.local.transcript_text,
                       process_columns(summary_processes, c.id), "transcripts")))
    /\ UNCHANGED <<clock, writer, readers, work, meetings, summary_processes,
                   transcript_chunks, transcripts, chunkRun, jiraRun,
                   settings, transcript_settings, jira_settings, hub>>

SegmentTexts == {<<>>, <<"a">>, <<"b", "c">>}
Timestamps == {<<"0", "9">>, <<"1", "0">>}
BlobTexts == {<<>>, <<" ">>, <<"x", "y">>}
ChunkSizes == {0, 5000}
Overlaps == {-1, 1000}

NextRead ==
    \/ \E m \in MeetingIds, text \in SegmentTexts, ts \in Timestamps :
          save_meeting_transcript("t1", m, text, ts)
    \/ \E m \in MeetingIds, text \in BlobTexts, cs \in ChunkSizes, ov \in Overlaps :
          save_transcript_call("t1", m, text, cs, ov)
    \/ save_transcript_update("t1")
    \/ save_transcript_insert("t1")
    \/ save_transcript_commit("t1")
    \/ \E m \in MeetingIds : create_process_call("t1", m)
    \/ create_process_update("t1")
    \/ create_process_insert("t1")
    \/ create_process_commit("t1")
    \/ \E m \in MeetingIds : get_transcript_data_call("t1", m)
    \/ get_transcript_data_chunks("t1")
    \/ get_transcript_data_transcripts("t1")
    \/ get_transcript_data_process("t1")

SpecRead == Init /\ [][NextRead]_vars

BlobRows(m) ==
    {i \in DOMAIN transcript_chunks :
        transcript_chunks[i].meeting_id = m /\ transcript_chunks[i].transcript_text # <<>>}
SegmentRows(m) == {i \in DOMAIN transcripts : transcripts[i].meeting_id = m}
NonEmptySegmentRows(m) == {i \in SegmentRows(m) : transcripts[i].transcript # <<>>}

\* the orders of the rows by ascending timestamp
Ascending(rows) ==
    {p \in [1..Cardinality(rows) -> rows] :
        /\ \A i \in rows : \E k \in DOMAIN p : p[k] = i
        /\ \A i, j \in DOMAIN p :
              i < j => ~text_less(transcripts[p[j]].timestamp, transcripts[p[i]].timestamp)}

GetReturned == lastOp.op = "get_transcript_data" /\ lastOp.outcome = "returned"

\* C9 as claimed: get_transcript_data returns the blob text when a blob with
\* text exists; with segments only, the texts of the segments joined by
\* newline in ascending timestamp order; None exactly when neither a blob
\* text nor a non-empty segment exists.
C9_Original ==
    GetReturned =>
        LET m == lastOp.id
        IN /\ BlobRows(m) # {} =>
                 /\ lastOp.data # None
                 /\ \E i \in BlobRows(m) :
                       lastOp.data[1].transcript_text = transcript_chunks[i].transcript_text
           /\ (BlobRows(m) = {} /\ NonEmptySegmentRows(m) # {}) =>
                 /\ lastOp.data # None
                 /\ \E p \in Ascending(SegmentRows(m)) :
                       lastOp.data[1].transcript_text =
                           join([k \in DOMAIN p |-> transcripts[p[k]].transcript])
           /\ lastOp.data = None <=> (BlobRows(m) = {} /\ NonEmptySegmentRows(m) = {})

\* C9 as amended: with segments only, the text returned is the non-empty
\* segment texts joined by newline in ascending timestamp order; a segment
\* whose text is empty contributes nothing, not even a newline.
C9_TranscriptData ==
    GetReturned =>
        LET m == lastOp.id
        IN /\ BlobRows(m) # {} =>
                 /\ lastOp.data # None
                 /\ \E i \in BlobRows(m) :
                       lastOp.data[1].transcript_text = transcript_chunks[i].transcript_text
           /\ (BlobRows(m) = {} /\ NonEmptySegmentRows(m) # {}) =>
                 /\ lastOp.data # None
                 /\ \E p \in Ascending(NonEmptySegmentRows(m)) :
                       lastOp.data[1].transcript_text =
                           join([k \in DOMAIN p |-> transcripts[p[k]].transcript])
           /\ lastOp.data = None <=> (BlobRows(m) = {} /\ NonEmptySegmentRows(m) = {})

\* two segments were saved, the later timestamp first, and
\* get_transcript_data has returned their texts by ascending timestamp
C9_Witness ==
    /\ GetReturned
    /\ BlobRows(lastOp.id) = {}
    /\ \E i, j \in NonEmptySegmentRows(lastOp.id) :
          /\ i < j
          /\ text_less(transcripts[j].timestamp, transcripts[i].timestamp)
          /\ lastOp.data # None
          /\ lastOp.data[1].transcript_text =
                 transcripts[j].transcript \o <<"\n">> \o transcripts[i].transcript

\* get_transcript_data has returned the blob text of a meeting that also
\* has a segment
C9_BlobWitness ==
    /\ GetReturned
    /\ BlobRows(lastOp.id) # {}
    /\ NonEmptySegmentRows(lastOp.id) # {}
    /\ lastOp.data # None

----------------------------------------------------------------------------
(* TranscriptProcessor.process_transcript: the model dispatch and the split *)
(* of the transcript into chunks                                            *)

\* the text of length n, each character named by its position
Text(n) == [k \in 1..n |-> k]

\* str.lower(), character by character
lower(s) ==
    [i \in DOMAIN s |->
        IF \E k \in DOMAIN UpperLetters : UpperLetters[k] = s[i]
        THEN LowerLetters[CHOOSE k \in DOMAIN UpperLetters : UpperLetters[k] = s[i]]
        ELSE s[i]]

startswith(s, p) ==
    Len(s) >= Len(p) /\ SubSeq(s, 1, Len(p)) = p

max(a, b) == IF a >= b THEN a ELSE b
min(a, b) == IF a <= b THEN a ELSE b

OverlapClamp == 100

\* chunk_size, overlap as the dispatch leaves them
dispatch(model, model_name, chunk_size, overlap) ==
    IF model = "ollama"
    THEN IF startswith(lower(model_name), <<"p", "h", "i", "4">>)
            \/ startswith(lower(model_name), <<"l", "l", "a", "m", "a">>)
         THEN [chunk_size |-> 10000, overlap |-> 1000]
         ELSE [chunk_size |-> 30000, overlap |-> 1000]
    ELSE [chunk_size |-> chunk_size, overlap |-> overlap]

\* the mutant: an overlap that is too large is replaced by no overlap
chunk_step_whole(chunk_size, overlap) ==
    IF chunk_size - overlap <= 0 THEN chunk_size ELSE chunk_size - overlap

\* step = chunk_size - overlap, after the adjustment of the overlap
chunk_step(chunk_size, overlap) ==
    IF chunk_size - overlap <= 0
    THEN chunk_size - max(0, chunk_size - OverlapClamp)
    ELSE chunk_size - overlap

\* list(range(0, stop, step)) for step # 0
range(stop, step) ==
    IF step < 0 \/ stop <= 0
    THEN <<>>
    ELSE [k \in 1..((stop + step - 1) \div step) |-> (k - 1) * step]

\* text[i:j] for 0 <= i <= j
slice(text, i, j) == SubSeq(text, i + 1, min(j, Len(text)))

\* [text[i:i+chunk_size] for i in range(0, len(text), step)]
split(text, chunk_size, step) ==
    LET starts == range(Len(text), step)
    IN [k \in DOMAIN starts |-> slice(text, starts[k], starts[k] + chunk_size)]

\* the mutant: only an unknown provider is an error
dispatch_raises_unsupported(model, api_key, env_key) ==
    model \notin {"claude", "ollama", "gemini", "groq", "openai"}

\* the dispatch raises ValueError: a provider outside the five tags, or no
\* API key (api_key is what db.get_api_key returns, env_key is GOOGLE_API_KEY)
dispatch_raises(model, api_key, env_key) ==
    IF model \in {"claude", "groq", "openai"} THEN api_key = ""
    ELSE IF model = "ollama" THEN FALSE
    ELSE IF model = "gemini" THEN api_key = "" /\ env_key = ""
    ELSE TRUE

process_transcript_call(model, model_name, api_key, env_key, chunk_size, overlap, n) ==
    /\ chunkRun.pc \in {"none", "done"}
    /\ jiraRun.pc \in {"none", "done"}
    /\ clock < MaxClock
    /\ clock' = clock + 1
    /\ LET d == dispatch(model, model_name, chunk_size, overlap)
           run == [NoChunkRun EXCEPT
                      !.model = model, !.model_name = model_name,
                      !.api_key = api_key, !.env_key = env_key,
                      !.args = [chunk_size |-> chunk_size, overlap |-> overlap],
                      !.text = Text(n),
                      !.chunk_size = d.chunk_size, !.overlap = d.overlap]
       IN IF dispatch_raises(model, api_key, env_key)
          THEN \* caught by the outer handler, logged and raised again
               chunkRun' = [run EXCEPT !.pc = "done", !.ret = "raised"]
          ELSE chunkRun' = [run EXCEPT !.pc = "split"]
    /\ jiraRun' = NoJiraRun
    /\ UNCHANGED <<tasks, writer, readers, work, meetings, summary_processes,
                   transcript_chunks, transcripts, lastOp,
                   settings,
                   transcript_settings, jira_settings, hub>>

process_transcript_split ==
    /\ chunkRun.pc = "split"
    /\ LET step == chunk_step(chunkRun.chunk_size, chunkRun.overlap)
       IN IF step = 0
          THEN \* ValueError: range() arg 3 must not be zero
               chunkRun' = [chunkRun EXCEPT !.pc = "done", !.outcome = "raised",
                                            !.ret = "raised"]
          ELSE LET chunks == split(chunkRun.text, chunkRun.chunk_size, step)
               IN chunkRun' = [chunkRun EXCEPT
                                  !.pc = "chunk", !.outcome = "split", !.i = 1,
                                  !.chunks = chunks, !.num_chunks = Len(chunks)]
    /\ UNCHANGED <<clock, tasks, writer, readers, work, meetings,
                   summary_processes, transcript_chunks, transcripts, lastOp, jiraRun,
                   settings, transcript_settings, jira_settings, hub>>

\* the summary the model gives for chunk i, and SummaryResponse.model_dump_json
summary_of(i) == [chunk |-> i]
model_dump_json(summary) == <<"{", summary.chunk, "}">>

\* the mutants: a handler that catches nothing, a handler that catches all
caught_nothing(e) == FALSE
caught_everything(e) == TRUE

\* except Exception: asyncio.CancelledError is a BaseException
caught_by_except_Exception(e) == e # "CancelledError"

\* for i, chunk in enumerate(chunks): the request for the chunk is issued
\* (agent.run, or client.chat inside chat_ollama_model)
process_transcript_request ==
    /\ chunkRun.pc = "chunk"
    /\ chunkRun.i <= Len(chunkRun.chunks)
    /\ chunkRun' = [chunkRun EXCEPT
                       !.pc = "await",
                       !.stream = NoChunkRun.stream, !.consumed = 0,
                       !.full_response = <<>>, !.validations = <<>>,
                       !.streamed = 0,
                       !.requests = Append(@, chunkRun.i),
                       !.active_clients =
                           IF chunkRun.model = "ollama" THEN Append(@, chunkRun.i) ELSE @]
    /\ UNCHANGED <<clock, tasks, writer, readers, work, meetings,
                   summary_processes, transcript_chunks, transcripts, lastOp, jiraRun,
                   settings, transcript_settings, jira_settings, hub>>

\* what the awaited request does:
\*   "summary"        a SummaryResponse (result.data, or the validated stream)
\*   "unexpected"     agent.run gives a result that holds no SummaryResponse
\*   "invalid"        the stream of chat_ollama_model does not validate: the
\*                    text is returned and model_validate_json raises
\*   "Exception"      the request raises
\*   "CancelledError" the task is cancelled while the request is awaited
Outcomes(model) ==
    IF model = "ollama"
    THEN {"summary", "invalid", "Exception", "CancelledError"}
    ELSE {"summary", "unexpected", "Exception", "CancelledError"}

\* the exception that reaches the handler of the chunk, "" for none
chunk_error(outcome) ==
    IF outcome \in {"Exception", "CancelledError"} THEN outcome
    ELSE IF outcome = "invalid" THEN "Exception"
    ELSE ""

\* the mutant: the client stays in the list
remove_client_never(active_clients, client) == active_clients

\* finally: if client in self.active_clients: self.active_clients.remove(client)
remove_client(active_clients, client) ==
    IF \E k \in DOMAIN active_clients : active_clients[k] = client
    THEN LET first_at == CHOOSE k \in DOMAIN active_clients :
                            /\ active_clients[k] = client
                            /\ \A j \in 1..(k - 1) : active_clients[j] # client
         IN SubSeq(active_clients, 1, first_at - 1)
               \o SubSeq(active_clients, first_at + 1, Len(active_clients))
    ELSE active_clients

\* the chunk loop after the awaited request of chunk run.i ended with outcome
responded(run, outcome) ==
    LET e == chunk_error(outcome)
        \* finally: of chat_ollama_model
        clients == remove_client(run.active_clients, run.i)
        resumed == [run EXCEPT !.active_clients = clients,
                               !.responses = Append(@, outcome)]
    IN IF e = ""
       THEN IF outcome = "summary"
            THEN [resumed EXCEPT
                    !.pc = "chunk", !.i = @ + 1,
                    !.all_json_data =
                        Append(@, model_dump_json(summary_of(run.i)))]
            ELSE \* continue
                 [resumed EXCEPT !.pc = "chunk", !.i = @ + 1]
       ELSE IF caught_by_except_Exception(e)
       THEN \* except Exception as chunk_error: logged
            [resumed EXCEPT !.pc = "chunk", !.i = @ + 1]
       ELSE \* not caught by the outer except Exception either
            [resumed EXCEPT !.pc = "done",
                            !.ret = IF e = "CancelledError" THEN "cancelled"
                                    ELSE "raised"]

process_transcript_response(outcome) ==
    /\ chunkRun.pc = "await"
    /\ outcome \in Outcomes(chunkRun.model)
    /\ chunkRun' = responded(chunkRun, outcome)
    /\ UNCHANGED <<clock, tasks, writer, readers, work, meetings,
                   summary_processes, transcript_chunks, transcripts, lastOp, jiraRun,
                   settings, transcript_settings, jira_settings, hub>>

\* return num_chunks, all_json_data
process_transcript_return ==
    /\ chunkRun.pc = "chunk"
    /\ chunkRun.i > Len(chunkRun.chunks)
    /\ chunkRun' = [chunkRun EXCEPT !.pc = "done", !.ret = "returned"]
    /\ UNCHANGED <<clock, tasks, writer, readers, work, meetings,
                   summary_processes, transcript_chunks, transcripts, lastOp, jiraRun,
                   settings, transcript_settings, jira_settings, hub>>

MaxChunks == 3

Models == {"claude", "ollama", "gemini", "groq", "openai", "mistral"}
ModelNames == {<<"P", "h", "i", "4">>, <<"g", "e", "m", "m", "a">>}
ApiKeys == {"", "key"}
EnvKeys == {"", "env"}
ChunkArgs == {-5, 0, 2, 150}
TextLengths == {1, 3, 250}
\* a text of two chunks for ollama, whose chunk size is 10000 or 30000
LongText == 9001
OllamaArgs == {<<2, 0>>, <<0, 0>>, <<150, 150>>}

\* the model name matters to ollama only, GOOGLE_API_KEY to gemini only
Dispatches ==
    {d \in [model : Models, model_name : ModelNames, api_key : ApiKeys,
            env_key : EnvKeys] :
        /\ d.model # "ollama" => d.model_name = <<"g", "e", "m", "m", "a">>
        /\ d.model # "gemini" => d.env_key = ""
        /\ d.model \in {"ollama", "mistral"} => d.api_key = ""}

\* the arguments that give the model at most MaxChunks chunks
ChunkCases(model, model_name) ==
    {c \in [chunk_size : ChunkArgs, overlap : ChunkArgs,
             n : TextLengths \cup {LongText}] :
        LET d == dispatch(model, model_name, c.chunk_size, c.overlap)
            step == chunk_step(d.chunk_size, d.overlap)
        IN /\ c.n = LongText => model = "ollama"
           /\ model = "ollama" => <<c.chunk_size, c.overlap>> \in OllamaArgs
           /\ step = 0 \/ Len(range(c.n, step)) <= MaxChunks}

NextChunk ==
    \/ \E d \in Dispatches : \E c \in ChunkCases(d.model, d.model_name) :
          process_transcript_call(d.model, d.model_name, d.api_key, d.env_key,
                                  c.chunk_size, c.overlap, c.n)
    \/ process_transcript_split
    \/ process_transcript_request
    \/ \E outcome \in {"summary", "unexpected", "invalid", "Exception", "CancelledError"} :
          process_transcript_response(outcome)
    \/ process_transcript_return

SpecChunk == Init /\ [][NextChunk]_vars

\* C10 as claimed: for every chunk_size and overlap with overlap >= chunk_size
\* and every non-empty text, the split ends without an error and produces
\* at least one chunk.
C10_Original ==
    (/\ chunkRun.outcome # "none"
     /\ chunkRun.args.overlap >= chunkRun.args.chunk_size
     /\ Len(chunkRun.text) >= 1)
        => chunkRun.outcome = "split" /\ Len(chunkRun.chunks) >= 1

\* the chunks whose request gave a summary, in increasing order
RECURSIVE SuccessfulPayloads(_, _)
SuccessfulPayloads(responses, k) ==
    IF k > Len(responses) THEN <<>>
    ELSE IF responses[k] = "summary"
         THEN <<model_dump_json(summary_of(k))>> \o SuccessfulPayloads(responses, k + 1)
         ELSE SuccessfulPayloads(responses, k + 1)

Failed(outcome) == outcome \in {"unexpected", "invalid", "Exception"}

\* C11: a chunk whose request or validation fails is skipped: the chunks are
\* requested one at a time in input order, a failure is followed by the
\* request of the next chunk, the call returns normally, and the list
\* returned holds exactly the payloads of the successful chunks in order.
C11_FailedChunkSkipped ==
    /\ \* one request in flight at most, in input order
       /\ chunkRun.requests = [k \in 1..Len(chunkRun.requests) |-> k]
       /\ Len(chunkRun.requests) - Len(chunkRun.responses) \in {0, 1}
    /\ \* a failure does not end the call
       (/\ chunkRun.responses # <<>>
        /\ Failed(chunkRun.responses[Len(chunkRun.responses)]))
          => chunkRun.ret \in {"none", "returned"}
    /\ \* every chunk was attempted before the call returns
       chunkRun.ret = "returned" =>
          /\ Len(chunkRun.requests) = Len(chunkRun.chunks)
          /\ chunkRun.num_chunks = Len(chunkRun.chunks)
          /\ chunkRun.all_json_data = SuccessfulPayloads(chunkRun.responses, 1)

\* a call has returned after its first chunk failed and a later one gave a
\* summary
C11_Witness ==
    /\ chunkRun.ret = "returned"
    /\ Len(chunkRun.chunks) >= 2
    /\ Failed(chunkRun.responses[1])
    /\ chunkRun.responses[2] = "summary"
    /\ chunkRun.all_json_data # <<>>

\* C12: a cancellation while chat_ollama_model awaits the stream leaves
\* process_transcript: it is not absorbed by the handler of the chunk, no
\* further chunk is requested and nothing is returned.
C12_CancellationPropagates ==
    (/\ chunkRun.model = "ollama"
     /\ \E k \in DOMAIN chunkRun.responses : chunkRun.responses[k] = "CancelledError")
        => /\ chunkRun.pc = "done"
           /\ chunkRun.ret = "cancelled"
           /\ chunkRun.responses[Len(chunkRun.responses)] = "CancelledError"
           /\ Len(chunkRun.requests) = Len(chunkRun.responses)
           /\ chunkRun.active_clients = <<>>

\* an ollama call was cancelled at its first chunk with more chunks to come
C12_Witness ==
    /\ chunkRun.model = "ollama"
    /\ chunkRun.ret = "cancelled"
    /\ chunkRun.responses = <<"CancelledError">>
    /\ Len(chunkRun.chunks) >= 2

----------------------------------------------------------------------------
(* JiraTaskSuggestion: the validators of the model class                    *)

isalpha(c) ==
    \/ \E k \in DOMAIN LowerLetters : LowerLetters[k] = c
    \/ \E k \in DOMAIN UpperLetters : UpperLetters[k] = c

\* sub in s
in_str(sub, s) ==
    \E k \in 0..(Len(s) - Len(sub)) : SubSeq(s, k + 1, k + Len(sub)) = sub

\* str.split(): the maximal runs of characters that are not whitespace
RECURSIVE str_split(_)
str_split(s) ==
    LET t == lstrip(s)
    IN IF t = <<>> THEN <<>>
       ELSE LET k == CHOOSE k \in 1..(Len(t) + 1) :
                        /\ k = Len(t) + 1 \/ t[k] \in Whitespace
                        /\ \A j \in 1..(k - 1) : t[j] \notin Whitespace
            IN <<SubSeq(t, 1, k - 1)>> \o str_split(SubSeq(t, k, Len(t)))

MinSummaryLen == 10
MinDescriptionLen == 20

\* the mutant: more than half of the words have to be valid
validate_summary_majority(v) ==
    LET words == str_split(v)
        valid_words == Cardinality({k \in DOMAIN words :
                           Len(words[k]) >= 2 /\ isalpha(words[k][1])})
    IN IF v = <<>> \/ Len(strip(v)) < MinSummaryLen THEN None
       ELSE IF Len(words) < 2 THEN None
       ELSE IF 2 * valid_words <= Len(words) THEN None
       ELSE Some(strip(v))

\* each validator gives None when it raises ValueError, else Some(value)
validate_summary(v) ==
    LET words == str_split(v)
        valid_words == Cardinality({k \in DOMAIN words :
                           Len(words[k]) >= 2 /\ isalpha(words[k][1])})
    IN IF v = <<>> \/ Len(strip(v)) < MinSummaryLen THEN None
       ELSE IF Len(words) < 2 THEN None
       ELSE IF 2 * valid_words < Len(words) THEN None
       ELSE Some(strip(v))

validate_description(v) ==
    IF v = <<>> \/ Len(strip(v)) < MinDescriptionLen THEN None ELSE Some(strip(v))

validate_priority(v) ==
    LET l == lower(strip(v))
    IN IF l = <<"h", "i", "g", "h">> THEN <<"H", "i", "g", "h">>
       ELSE IF l \in {<<"h", "i", "g", "h", "e", "s", "t">>, <<"c", "r", "i", "t", "i", "c", "a", "l">>} THEN <<"H", "i", "g", "h", "e", "s", "t">>
       ELSE IF l \in {<<"m", "e", "d", "i", "u", "m">>, <<"n", "o", "r", "m", "a", "l">>} THEN <<"M", "e", "d", "i", "u", "m">>
       ELSE IF l \in {<<"l", "o", "w">>, <<"m", "i", "n", "o", "r">>} THEN <<"L", "o", "w">>
       ELSE IF l = <<"l", "o", "w", "e", "s", "t">> THEN <<"L", "o", "w", "e", "s", "t">>
       ELSE strip(v)

validate_type(v) ==
    LET l == lower(strip(v))
    IN IF l \in {<<"b", "u", "g">>, <<"d", "e", "f", "e", "c", "t">>, <<"e", "r", "r", "o", "r">>} THEN <<"B", "u", "g">>
       ELSE IF l \in {<<"t", "a", "s", "k">>, <<"a", "c", "t", "i", "o", "n", " ", "i", "t", "e", "m">>} THEN <<"T", "a", "s", "k">>
       ELSE IF l \in {<<"s", "t", "o", "r", "y">>, <<"u", "s", "e", "r", " ", "s", "t", "o", "r", "y">>, <<"f", "e", "a", "t", "u", "r", "e">>} THEN <<"S", "t", "o", "r", "y">>
       ELSE IF l = <<"e", "p", "i", "c">> THEN <<"E", "p", "i", "c">>
       ELSE IF l \in {<<"i", "m", "p", "r", "o", "v", "e", "m", "e", "n", "t">>, <<"e", "n", "h", "a", "n", "c", "e", "m", "e", "n", "t">>} THEN <<"I", "m", "p", "r", "o", "v", "e", "m", "e", "n", "t">>
       ELSE strip(v)

\* JiraTaskSuggestion(**d): None when the validation fails
JiraTaskSuggestion(d) ==
    IF validate_summary(d.summary) = None \/ validate_description(d.description) = None
    THEN None
    ELSE Some([summary |-> validate_summary(d.summary)[1],
               description |-> validate_description(d.description)[1],
               priority |-> validate_priority(d.priority),
               type |-> validate_type(d.type),
               assignee |-> d.assignee])

----------------------------------------------------------------------------
(* TranscriptProcessor._post_process_tasks and _is_valid_english            *)

action_verbs ==
    {<<"f", "i", "x">>, <<"i", "m", "p", "l", "e", "m", "e", "n", "t">>, <<"a", "d", "d">>, <<"u", "p", "d", "a", "t", "e">>, <<"c", "r", "e", "a", "t", "e">>, <<"r", "e", "s", "o", "l", "v", "e">>,
     <<"i", "n", "v", "e", "s", "t", "i", "g", "a", "t", "e">>, <<"r", "e", "v", "i", "e", "w">>, <<"r", "e", "m", "o", "v", "e">>, <<"r", "e", "f", "a", "c", "t", "o", "r">>, <<"i", "m", "p", "r", "o", "v", "e">>,
     <<"c", "o", "n", "f", "i", "g", "u", "r", "e">>, <<"s", "e", "t", "u", "p">>, <<"s", "e", "t", " ", "u", "p">>, <<"d", "e", "p", "l", "o", "y">>, <<"m", "i", "g", "r", "a", "t", "e">>, <<"t", "e", "s", "t">>,
     <<"d", "e", "b", "u", "g">>, <<"o", "p", "t", "i", "m", "i", "z", "e">>, <<"e", "n", "a", "b", "l", "e">>, <<"d", "i", "s", "a", "b", "l", "e">>, <<"a", "d", "d", "r", "e", "s", "s">>}

common_words ==
    {<<"t", "h", "e">>, <<"a">>, <<"a", "n">>, <<"i", "s">>, <<"a", "r", "e">>, <<"w", "a", "s">>, <<"w", "e", "r", "e">>, <<"b", "e">>, <<"b", "e", "e", "n">>,
     <<"t", "o">>, <<"f", "o", "r">>, <<"a", "n", "d">>, <<"o", "r">>, <<"b", "u", "t">>, <<"i", "n">>, <<"o", "n">>, <<"a", "t">>, <<"w", "i", "t", "h">>,
     <<"f", "i", "x">>, <<"a", "d", "d">>, <<"u", "p", "d", "a", "t", "e">>, <<"c", "r", "e", "a", "t", "e">>, <<"i", "m", "p", "l", "e", "m", "e", "n", "t">>, <<"b", "u", "g">>, <<"e", "r", "r", "o", "r">>,
     <<"i", "s", "s", "u", "e">>, <<"u", "s", "e", "r">>, <<"s", "y", "s", "t", "e", "m">>, <<"d", "a", "t", "a">>, <<"p", "a", "g", "e">>, <<"a", "p", "i">>, <<"n", "o", "t">>, <<"n", "o">>}

Vowels == {"a", "e", "i", "o", "u"}

is_valid_english(text) ==
    IF text = <<>> \/ Len(text) < 5 THEN FALSE
    ELSE LET words == str_split(text)
             text_words == {lower(words[k]) : k \in DOMAIN words}
             alpha_count == Cardinality({k \in DOMAIN text : isalpha(text[k])})
             vowels(w) == Cardinality({k \in DOMAIN w : lower(w)[k] \in Vowels})
         IN IF Len(words) < 2 THEN FALSE
            ELSE IF text_words \cap common_words = {}
            THEN IF 10 * alpha_count < 7 * Len(text) THEN FALSE
                 ELSE ~\E k \in DOMAIN words :
                         /\ Len(words[k]) > 3
                         /\ lower(words[k]) \notin common_words
                         /\ vowels(words[k]) = 0 \/ 10 * vowels(words[k]) > 7 * Len(words[k])
            ELSE TRUE

\* the mutant: the summary is capitalized and no verb is prepended
fixed_summary_capitalized(task) ==
    LET summary == strip(task.summary)
    IN IF summary # <<>> THEN upper(<<summary[1]>>) \o Tail(summary) ELSE summary

\* the summary with its verb and its capital
fixed_summary(task) ==
    LET summary == strip(task.summary)
        words == str_split(summary)
        first_word == IF words # <<>> THEN lower(words[1]) ELSE <<>>
        verbed ==
            IF first_word \notin action_verbs
            THEN IF \/ in_str(<<"b", "u", "g">>, lower(task.type))
                    \/ in_str(<<"e", "r", "r", "o", "r">>, lower(summary))
                    \/ in_str(<<"i", "s", "s", "u", "e">>, lower(summary))
                 THEN <<"F", "i", "x", " ">> \o summary
                 ELSE IF in_str(<<"o", "u", "t", "a", "g", "e">>, lower(summary)) \/ in_str(<<"d", "o", "w", "n">>, lower(summary))
                 THEN <<"R", "e", "s", "o", "l", "v", "e", " ">> \o summary
                 ELSE <<"A", "d", "d", "r", "e", "s", "s", " ">> \o summary
            ELSE summary
    IN IF verbed # <<>> THEN upper(<<verbed[1]>>) \o Tail(verbed) ELSE verbed

\* Epic becomes Bug or Task
fixed_type(task, summary) ==
    IF lower(task.type) = <<"e", "p", "i", "c">>
    THEN IF \/ in_str(<<"o", "u", "t", "a", "g", "e">>, lower(summary)) \/ in_str(<<"b", "u", "g">>, lower(summary))
            \/ in_str(<<"e", "r", "r", "o", "r">>, lower(summary)) \/ in_str(<<"f", "i", "x">>, lower(summary))
         THEN <<"B", "u", "g">>
         ELSE <<"T", "a", "s", "k">>
    ELSE task.type

severe(description) ==
    LET desc_lower == lower(description)
    IN \/ in_str(<<"o", "u", "t", "a", "g", "e">>, desc_lower) \/ in_str(<<"b", "l", "o", "c", "k", "i", "n", "g">>, desc_lower)
       \/ in_str(<<"d", "o", "w", "n">>, desc_lower) \/ in_str(<<"5", "0", "0">>, desc_lower)

\* the mutant: every severe task gets priority High
revised_priority_flat(task) ==
    IF severe(task.description) THEN <<"H", "i", "g", "h">> ELSE task.priority

revised_priority(task) ==
    IF severe(task.description)
       /\ lower(task.priority) \in {<<"l", "o", "w">>, <<"l", "o", "w", "e", "s", "t">>, <<"m", "e", "d", "i", "u", "m">>}
    THEN <<"H", "i", "g", "h">>
    ELSE task.priority

\* what a model may give for a task, before validation
RawTask(summary, description, priority, type) ==
    [summary |-> summary, description |-> description, priority |-> priority,
     type |-> type, assignee |-> <<"U", "n", "a", "s", "s", "i", "g", "n", "e", "d">>]

LoginBug ==
    RawTask(<<"F", "i", "x", " ", "t", "h", "e", " ", "l", "o", "g", "i", "n", 
          " ", "b", "u", "g">>, <<"T", "h", "e", " ", "l", "o", "g", "i", "n", " ", "p", "a", "g", 
          "e", " ", "i", "s", " ", "d", "o", "w", "n", " ", "f", "o", "r", 
          " ", "a", "l", "l", " ", "u", "s", "e", "r", "s">>,
            <<"l", "o", "w">>, <<"b", "u", "g">>)
BillingEpic ==
    RawTask(<<"P", "l", "a", "n", " ", "t", "h", "e", " ", "b", "i", "l", "l", 
          "i", "n", "g", " ", "m", "i", "g", "r", "a", "t", "i", "o", "n">>, <<"M", "o", "v", "e", " ", "t", "h", "e", " ", "b", "i", "l", "l", 
          "i", "n", "g", " ", "d", "a", "t", "a", " ", "t", "o", " ", "t", 
          "h", "e", " ", "n", "e", "w", " ", "s", "y", "s", "t", "e", "m">>,
            <<"H", "i", "g", "h">>, <<"E", "p", "i", "c">>)
Gibberish ==
    RawTask(<<"x", "q", "z", "w", " ", "v", "b", "n", "m", " ", "t", "r", "p", 
          "l">>, <<"L", "o", "r", "e", "m", " ", "i", "p", "s", "u", "m", " ", "d", 
          "o", "l", "o", "r", " ", "s", "i", "t", " ", "a", "m", "e", "t", 
          " ", "c", "o", "n", "s", "e", "c", "t", "e", "t", "u", "r">>,
            <<"M", "e", "d", "i", "u", "m">>, <<"T", "a", "s", "k">>)
PaymentsOutage ==
    RawTask(<<"I", "n", "v", "e", "s", "t", "i", "g", "a", "t", "e", " ", "o", 
          "u", "t", "a", "g", "e", " ", "o", "f", " ", "p", "a", "y", "m", 
          "e", "n", "t", "s">>,
            <<"P", "a", "y", "m", "e", "n", "t", "s", " ", "o", "u", "t", "a", 
          "g", "e", " ", "r", "e", "p", "o", "r", "t", "e", "d", " ", "b", 
          "y", " ", "s", "u", "p", "p", "o", "r", "t", ",", " ", "b", "l", 
          "o", "c", "k", "i", "n", "g", " ", "c", "h", "e", "c", "k", "o", 
          "u", "t">>,
            <<"c", "r", "i", "t", "i", "c", "a", "l">>, <<"E", "P", "I", "C">>)
ApiDocs ==
    RawTask(<<" ", "u", "p", "d", "a", "t", "e", " ", "t", "h", "e", " ", "a", 
          "p", "i", " ", "d", "o", "c", "s", " ">>, <<"R", "e", "f", "r", "e", "s", "h", " ", "t", "h", "e", " ", "p", 
          "u", "b", "l", "i", "c", " ", "d", "o", "c", "u", "m", "e", "n", 
          "t", "a", "t", "i", "o", "n", " ", "p", "a", "g", "e", "s">>,
            <<"L", "o", "w", "e", "s", "t">>, <<"s", "t", "o", "r", "y">>)
ShortSummary ==
    RawTask(<<"F", "i", "x", " ", "b", "u", "g">>, <<"R", "e", "s", "o", "l", "v", "e", " ", "S", "t", "r", "i", "p", 
          "e", " ", "J", "S", "O", "N", " ", "p", "a", "r", "s", "i", "n", 
          "g", " ", "i", "s", "s", "u", "e">>, <<"H", "i", "g", "h">>, <<"B", "u", "g">>)

LoginError ==
    RawTask(<<"L", "o", "g", "i", "n", " ", "e", "r", "r", "o", "r", " ", "o", "n", " ", "c", "h", "e", "c", "k", "o", "u", "t">>,
            <<"U", "s", "e", "r", "s", " ", "s", "e", "e", " ", "a", "n", " ", "e", "r", "r", "o", "r", " ", "a", "f", "t", "e", "r", " ", "t", "h", "e", " ", "l", "o", "g", "i", "n", " ", "f", "o", "r", "m">>,
            <<"M", "e", "d", "i", "u", "m">>, <<"T", "a", "s", "k">>)
DatabaseDown ==
    RawTask(<<"D", "a", "t", "a", "b", "a", "s", "e", " ", "i", "s", " ", "d", "o", "w", "n", " ", "a", "g", "a", "i", "n">>,
            <<"T", "h", "e", " ", "p", "r", "i", "m", "a", "r", "y", " ", "d", "a", "t", "a", "b", "a", "s", "e", " ", "s", "t", "o", "p", "p", "e", "d", " ", "a", "n", "s", "w", "e", "r", "i", "n", "g">>,
            <<"H", "i", "g", "h">>, <<"T", "a", "s", "k">>)

RawTasks == {LoginBug, BillingEpic, Gibberish, PaymentsOutage, ApiDocs, ShortSummary,
             LoginError, DatabaseDown}

\* the tasks the constructor accepts
ValidTasks ==
    {JiraTaskSuggestion(r)[1] : r \in {r \in RawTasks : JiraTaskSuggestion(r) # None}}

\* one turn of the loop: the tasks it appends to processed
post_process_task(task) ==
    IF ~is_valid_english(strip(task.summary))
    THEN <<>>
    ELSE LET summary == fixed_summary(task)
             cleaned_task == JiraTaskSuggestion(
                 [summary |-> summary, description |-> task.description,
                  priority |-> revised_priority(task),
                  type |-> fixed_type(task, summary), assignee |-> task.assignee])
         IN IF cleaned_task = None
            THEN \* except Exception: the original is kept
                 <<task>>
            ELSE <<cleaned_task[1]>>

\* the turn of the loop for each task of the pool
processed == [task \in ValidTasks |-> post_process_task(task)]

turn(task) == IF task \in ValidTasks THEN processed[task] ELSE post_process_task(task)

\* the mutant: no task is skipped
RECURSIVE post_process_tasks_unfiltered(_)
post_process_tasks_unfiltered(input) ==
    IF input = <<>> THEN <<>>
    ELSE (IF turn(input[1]) = <<>> THEN <<input[1]>> ELSE turn(input[1]))
         \o post_process_tasks_unfiltered(Tail(input))

RECURSIVE post_process_tasks(_)
post_process_tasks(input) ==
    IF input = <<>> THEN <<>>
    ELSE turn(input[1]) \o post_process_tasks(Tail(input))

\* _post_process_tasks applied to a list of tasks
post_process_tasks_call(input) ==
    /\ chunkRun.pc \in {"none", "done"}
    /\ jiraRun.pc \in {"none", "done"}
    /\ clock < MaxClock
    /\ clock' = clock + 1
    /\ jiraRun' = [NoJiraRun EXCEPT !.pc = "done", !.op = "_post_process_tasks",
                                    !.tasks = input, !.ret = "returned",
                                    !.result = post_process_tasks(input)]
    /\ chunkRun' = NoChunkRun
    /\ UNCHANGED <<tasks, writer, readers, work, meetings, summary_processes,
                   transcript_chunks, transcripts, lastOp, settings,
                   transcript_settings, jira_settings, hub>>

MaxTasks == 2

TaskLists == UNION {[1..n -> ValidTasks] : n \in 0..MaxTasks}

----------------------------------------------------------------------------
(* TranscriptProcessor.extract_jira_tasks and the low-capacity fallback     *)

\* the character U+0060, which a string literal of this notation cannot hold
Backtick == "U+0060"

endswith(s, p) ==
    Len(s) >= Len(p) /\ SubSeq(s, Len(s) - Len(p) + 1, Len(s)) = p

\* the mutant: the tag is looked for in lower case only
strip_code_fence_lower_tag(payload) ==
    LET trimmed == strip(payload)
        opened == SubSeq(trimmed, 4, Len(trimmed))
        tagged == IF startswith(lstrip(opened), <<"j", "s", "o", "n">>)
                  THEN SubSeq(lstrip(opened), 5, Len(lstrip(opened)))
                  ELSE opened
        closed == IF endswith(tagged, <<Backtick, Backtick, Backtick>>)
                  THEN SubSeq(tagged, 1, Len(tagged) - 3)
                  ELSE tagged
    IN IF ~startswith(trimmed, <<Backtick, Backtick, Backtick>>) THEN trimmed ELSE strip(closed)

strip_code_fence(payload) ==
    LET trimmed == strip(payload)
        opened == SubSeq(trimmed, 4, Len(trimmed))
        tagged == IF startswith(lower(lstrip(opened)), <<"j", "s", "o", "n">>)
                  THEN SubSeq(lstrip(opened), 5, Len(lstrip(opened)))
                  ELSE opened
        closed == IF endswith(tagged, <<Backtick, Backtick, Backtick>>)
                  THEN SubSeq(tagged, 1, Len(tagged) - 3)
                  ELSE tagged
    IN IF ~startswith(trimmed, <<Backtick, Backtick, Backtick>>) THEN trimmed ELSE strip(closed)

\* the mutant: no marker is known
is_low_capacity_model_never(model_name) == FALSE

is_low_capacity_model(model_name) ==
    LET lowered == lower(model_name)
        markers == {<<"0", ".", "5", "b">>, <<"0", "_", "5", "b">>, <<"1", "b">>, <<"1", ".", "1", "b">>, <<"t", "i", "n", "y">>, <<"m", "i", "n", "i">>, <<"s", "m", "a", "l", "l">>}
    IN \E marker \in markers : in_str(marker, lowered)

\* the responses of the fallback request
EpicDoc ==
    <<"{", "\"", "t", "a", "s", "k", "s", "\"", ":", " ", "[", "{", "\"", 
      "s", "u", "m", "m", "a", "r", "y", "\"", ":", " ", "\"", "P", "l", 
      "a", "n", " ", "t", "h", "e", " ", "b", "i", "l", "l", "i", "n", "g", 
      " ", "m", "i", "g", "r", "a", "t", "i", "o", "n", "\"", ",", " ", 
      "\"", "d", "e", "s", "c", "r", "i", "p", "t", "i", "o", "n", "\"", 
      ":", " ", "\"", "M", "o", "v", "e", " ", "t", "h", "e", " ", "b", 
      "i", "l", "l", "i", "n", "g", " ", "d", "a", "t", "a", " ", "t", "o", 
      " ", "t", "h", "e", " ", "n", "e", "w", " ", "s", "y", "s", "t", "e", 
      "m", "\"", ",", " ", "\"", "p", "r", "i", "o", "r", "i", "t", "y", 
      "\"", ":", " ", "\"", "H", "i", "g", "h", "\"", ",", " ", "\"", "t", 
      "y", "p", "e", "\"", ":", " ", "\"", "E", "p", "i", "c", "\"", ",", 
      " ", "\"", "a", "s", "s", "i", "g", "n", "e", "e", "\"", ":", " ", 
      "\"", "U", "n", "a", "s", "s", "i", "g", "n", "e", "d", "\"", "}", 
      "]", "}">>

MixedDoc ==
    <<"{", "\"", "t", "a", "s", "k", "s", "\"", ":", " ", "[", "{", "\"", 
      "s", "u", "m", "m", "a", "r", "y", "\"", ":", " ", "\"", "F", "i", 
      "x", " ", "b", "u", "g", "\"", ",", " ", "\"", "d", "e", "s", "c", 
      "r", "i", "p", "t", "i", "o", "n", "\"", ":", " ", "\"", "R", "e", 
      "s", "o", "l", "v", "e", " ", "S", "t", "r", "i", "p", "e", " ", "J", 
      "S", "O", "N", " ", "p", "a", "r", "s", "i", "n", "g", " ", "i", "s", 
      "s", "u", "e", "\"", ",", " ", "\"", "p", "r", "i", "o", "r", "i", 
      "t", "y", "\"", ":", " ", "\"", "H", "i", "g", "h", "\"", ",", " ", 
      "\"", "t", "y", "p", "e", "\"", ":", " ", "\"", "B", "u", "g", "\"", 
      ",", " ", "\"", "a", "s", "s", "i", "g", "n", "e", "e", "\"", ":", 
      " ", "\"", "U", "n", "a", "s", "s", "i", "g", "n", "e", "d", "\"", 
      "}", ",", " ", "{", "\"", "s", "u", "m", "m", "a", "r", "y", "\"", 
      ":", " ", "\"", "F", "i", "x", " ", "t", "h", "e", " ", "l", "o", 
      "g", "i", "n", " ", "b", "u", "g", "\"", ",", " ", "\"", "d", "e", 
      "s", "c", "r", "i", "p", "t", "i", "o", "n", "\"", ":", " ", "\"", 
      "T", "h", "e", " ", "l", "o", "g", "i", "n", " ", "p", "a", "g", "e", 
      " ", "i", "s", " ", "d", "o", "w", "n", " ", "f", "o", "r", " ", "a", 
      "l", "l", " ", "u", "s", "e", "r", "s", "\"", ",", " ", "\"", "p", 
      "r", "i", "o", "r", "i", "t", "y", "\"", ":", " ", "\"", "l", "o", 
      "w", "\"", ",", " ", "\"", "t", "y", "p", "e", "\"", ":", " ", "\"", 
      "b", "u", "g", "\"", ",", " ", "\"", "a", "s", "s", "i", "g", "n", 
      "e", "e", "\"", ":", " ", "\"", "U", "n", "a", "s", "s", "i", "g", 
      "n", "e", "d", "\"", "}", "]", "}">>

NoTaskDoc ==
    <<"{", "\"", "t", "a", "s", "k", "s", "\"", ":", " ", "[", "]", "}">>

TasksTextDoc ==
    <<"{", "\"", "t", "a", "s", "k", "s", "\"", ":", " ", "\"", "n", "o", 
      "n", "e", "\"", "}">>

NoKeyDoc ==
    <<"{", "\"", "i", "t", "e", "m", "s", "\"", ":", " ", "[", "]", "}">>

ArrayDoc ==
    <<"[", "]">>

TextItemDoc ==
    <<"{", "\"", "t", "a", "s", "k", "s", "\"", ":", " ", "[", "\"", "F", 
      "i", "x", " ", "t", "h", "e", " ", "l", "o", "g", "i", "n", " ", "b", 
      "u", "g", "\"", "]", "}">>

\* a text element before the object of EpicDoc
TextThenEpicDoc ==
    SubSeq(EpicDoc, 1, 11) \o <<"\"", "n", "o", "t", "e", "\"", ",", " ">>
        \o SubSeq(EpicDoc, 12, Len(EpicDoc))

FencedEpicDoc == <<Backtick, Backtick, Backtick, "j", "s", "o", "n", "\n">> \o EpicDoc \o <<"\n", Backtick, Backtick, Backtick>>
NotJson == <<"S", "u", "r", "e", "!", " ", "H", "e", "r", "e", " ", "a", "r", 
          "e", " ", "t", "h", "e", " ", "t", "a", "s", "k", "s">>

\* a parsed JSON value: an array, or an object with or without "tasks"
JsonArray == [kind |-> "array", tasks |-> None]
JsonObject(value) == [kind |-> "object", tasks |-> value]
JsonList(items) == [list |-> TRUE, items |-> items]
JsonText == [list |-> FALSE, items |-> <<>>]
ObjectItem(d) == [object |-> TRUE, data |-> d]
TextItem == [object |-> FALSE, data |-> RawTask(<<>>, <<>>, <<>>, <<>>)]

\* json.loads: None for JSONDecodeError
json_loads(text) ==
    IF text = EpicDoc THEN Some(JsonObject(Some(JsonList(<<ObjectItem(BillingEpic)>>))))
    ELSE IF text = MixedDoc
    THEN Some(JsonObject(Some(JsonList(<<ObjectItem(ShortSummary), ObjectItem(LoginBug)>>))))
    ELSE IF text = NoTaskDoc THEN Some(JsonObject(Some(JsonList(<<>>))))
    ELSE IF text = TasksTextDoc THEN Some(JsonObject(Some(JsonText)))
    ELSE IF text = NoKeyDoc THEN Some(JsonObject(None))
    ELSE IF text = ArrayDoc THEN Some(JsonArray)
    ELSE IF text = TextItemDoc THEN Some(JsonObject(Some(JsonList(<<TextItem>>))))
    ELSE IF text = TextThenEpicDoc
    THEN Some(JsonObject(Some(JsonList(<<TextItem, ObjectItem(BillingEpic)>>))))
    ELSE None

\* validated: the elements the constructor accepts, in order
RECURSIVE validated(_)
validated(items) ==
    IF items = <<>> THEN <<>>
    ELSE (IF JiraTaskSuggestion(items[1].data) = None THEN <<>>
          ELSE <<JiraTaskSuggestion(items[1].data)[1]>>) \o validated(Tail(items))

Recovered(list) == [raised |-> FALSE, tasks |-> Some(list)]
NoRecovery == [raised |-> FALSE, tasks |-> None]
Raised == [raised |-> TRUE, tasks |-> None]

\* the mutant: an empty list stands in for a response that cannot be used
fallback_extract_guessing(raw_content) ==
    LET parsed == json_loads(strip_code_fence(raw_content))
    IN IF raw_content = <<>> \/ parsed = None THEN Recovered(<<>>)
       ELSE IF parsed[1].kind # "object" \/ parsed[1].tasks = None THEN Recovered(<<>>)
       ELSE IF ~parsed[1].tasks[1].list THEN Recovered(<<>>)
       ELSE Recovered(validated(parsed[1].tasks[1].items))

\* _fallback_extract_with_ollama from raw_content on: the list it returns,
\* None, or the exception it lets through
fallback_extract(raw_content) ==
    LET parsed == json_loads(strip_code_fence(raw_content))
    IN IF raw_content = <<>> THEN NoRecovery
       ELSE IF parsed = None THEN NoRecovery
       ELSE IF parsed[1].kind # "object"
       THEN \* parsed.get: AttributeError
            Raised
       ELSE IF parsed[1].tasks = None \/ ~parsed[1].tasks[1].list THEN NoRecovery
       ELSE IF \E k \in DOMAIN parsed[1].tasks[1].items : ~parsed[1].tasks[1].items[k].object
       THEN \* JiraTaskSuggestion(**task_data): TypeError
            Raised
       ELSE Recovered(validated(parsed[1].tasks[1].items))

ProviderName(model) ==
    IF model = "claude" THEN <<"c", "l", "a", "u", "d", "e">>
    ELSE IF model = "ollama" THEN <<"o", "l", "l", "a", "m", "a">>
    ELSE IF model = "gemini" THEN <<"g", "e", "m", "i", "n", "i">>
    ELSE IF model = "groq" THEN <<"g", "r", "o", "q">>
    ELSE IF model = "openai" THEN <<"o", "p", "e", "n", "a", "i">>
    ELSE <<"m", "i", "s", "t", "r", "a", "l">>

\* str(e) of the ValueError of the dispatch
dispatch_message(model) ==
    IF model = "claude" THEN <<"A", "N", "T", "H", "R", "O", "P", "I", "C", "_", "A", "P", "I", 
          "_", "K", "E", "Y", " ", "e", "n", "v", "i", "r", "o", "n", "m", 
          "e", "n", "t", " ", "v", "a", "r", "i", "a", "b", "l", "e", " ", 
          "n", "o", "t", " ", "s", "e", "t">>
    ELSE IF model = "gemini" THEN <<"G", "e", "m", "i", "n", "i", " ", "A", "P", "I", " ", "k", "e", 
          "y", " ", "i", "s", " ", "n", "o", "t", " ", "c", "o", "n", "f", 
          "i", "g", "u", "r", "e", "d", ".", " ">>
    ELSE IF model = "groq" THEN <<"G", "R", "O", "Q", "_", "A", "P", "I", "_", "K", "E", "Y", " ", 
          "e", "n", "v", "i", "r", "o", "n", "m", "e", "n", "t", " ", "v", 
          "a", "r", "i", "a", "b", "l", "e", " ", "n", "o", "t", " ", "s", 
          "e", "t">>
    ELSE IF model = "openai" THEN <<"O", "P", "E", "N", "A", "I", "_", "A", "P", "I", "_", "K", "E", 
          "Y", " ", "e", "n", "v", "i", "r", "o", "n", "m", "e", "n", "t", 
          " ", "v", "a", "r", "i", "a", "b", "l", "e", " ", "n", "o", "t", 
          " ", "s", "e", "t">>
    ELSE <<"U", "n", "s", "u", "p", "p", "o", "r", "t", "e", "d", " ", "m", 
          "o", "d", "e", "l", " ", "p", "r", "o", "v", "i", "d", "e", "r", 
          ":", " ">> \o ProviderName(model)

Error(type, message) == [type |-> type, message |-> message]

\* the error that leaves the handler when there is no recovery
raised_error(e) ==
    IF \/ in_str(<<"E", "x", "c", "e", "e", "d", "e", "d", " ", "m", "a", "x", "i", 
          "m", "u", "m", " ", "r", "e", "t", "r", "i", "e", "s">>, e.message)
       \/ in_str(<<"U", "n", "e", "x", "p", "e", "c", "t", "e", "d", "M", "o", "d", 
          "e", "l", "B", "e", "h", "a", "v", "i", "o", "r">>, e.message)
    THEN "ValueError"
    ELSE e.type

\* except Exception as e, up to the fallback request or to the raise
extract_jira_tasks_except(run, e) ==
    IF /\ e.type = "UnexpectedModelBehavior"
       /\ run.model = "ollama"
       /\ is_low_capacity_model(run.model_name)
    THEN [run EXCEPT !.pc = "fallback", !.error = e,
                     !.requests = Append(@, "fallback"),
                     !.active_clients = Append(@, "fallback")]
    ELSE [run EXCEPT !.pc = "done", !.error = e, !.ret = "raised",
                     !.raised = raised_error(e)]

extract_jira_tasks_call(model, model_name, api_key, env_key) ==
    /\ chunkRun.pc \in {"none", "done"}
    /\ jiraRun.pc \in {"none", "done"}
    /\ clock < MaxClock
    /\ clock' = clock + 1
    /\ LET run == [NoJiraRun EXCEPT !.op = "extract_jira_tasks", !.model = model,
                                    !.model_name = model_name,
                                    !.api_key = api_key, !.env_key = env_key]
       IN IF dispatch_raises(model, api_key, env_key)
          THEN jiraRun' = extract_jira_tasks_except(
                              run, Error("ValueError", dispatch_message(model)))
          ELSE jiraRun' = [run EXCEPT !.pc = "agent"]
    /\ chunkRun' = NoChunkRun
    /\ UNCHANGED <<tasks, writer, readers, work, meetings, summary_processes,
                   transcript_chunks, transcripts, lastOp, settings,
                   transcript_settings, jira_settings, hub>>

\* result = await agent.run(prompt): the request is issued
extract_jira_tasks_request ==
    /\ jiraRun.pc = "agent"
    /\ jiraRun' = [jiraRun EXCEPT !.pc = "await", !.requests = Append(@, "agent")]
    /\ UNCHANGED <<clock, tasks, writer, readers, work, meetings, summary_processes,
                   transcript_chunks, transcripts, lastOp, chunkRun, settings,
                   transcript_settings, jira_settings, hub>>

\* agent.run gives result.data.tasks, or raises e, or the task is cancelled
extract_jira_tasks_response(outcome, input, e) ==
    /\ jiraRun.pc = "await"
    /\ IF outcome = "tasks"
       THEN jiraRun' = [jiraRun EXCEPT !.pc = "done", !.tasks = input,
                                       !.result = post_process_tasks(input),
                                       !.ret = "returned"]
       ELSE IF outcome = "CancelledError"
       THEN jiraRun' = [jiraRun EXCEPT !.pc = "done", !.ret = "cancelled"]
       ELSE jiraRun' = extract_jira_tasks_except(jiraRun, e)
    /\ UNCHANGED <<clock, tasks, writer, readers, work, meetings, summary_processes,
                   transcript_chunks, transcripts, lastOp, chunkRun, settings,
                   transcript_settings, jira_settings, hub>>

\* the fallback request ends: with a response, with an exception, or
\* cancelled; the client leaves active_clients in each case
extract_jira_tasks_fallback_response(outcome, raw_content) ==
    /\ jiraRun.pc = "fallback"
    /\ LET run == [jiraRun EXCEPT !.active_clients = remove_client(@, "fallback"),
                                  !.fallback = outcome,
                                  !.content = IF outcome = "content" THEN raw_content
                                              ELSE <<>>]
           no_recovery == [run EXCEPT !.pc = "done", !.ret = "raised",
                                      !.raised = raised_error(jiraRun.error)]
           r == fallback_extract(raw_content)
       IN IF outcome = "CancelledError"
          THEN jiraRun' = [run EXCEPT !.pc = "done", !.ret = "cancelled"]
          ELSE IF outcome = "Exception"
          THEN jiraRun' = no_recovery
          ELSE IF r.raised \/ r.tasks = None
          THEN jiraRun' = no_recovery
          ELSE jiraRun' = [run EXCEPT !.pc = "done", !.ret = "returned",
                                      !.result = r.tasks[1]]
    /\ UNCHANGED <<clock, tasks, writer, readers, work, meetings, summary_processes,
                   transcript_chunks, transcripts, lastOp, chunkRun, settings,
                   transcript_settings, jira_settings, hub>>

JiraModelNames ==
    {<<"T", "i", "n", "y", "L", "l", "a", "m", "a">>, <<"q", "w", "e", "n", "2", ":", "0", "_", "5", "b">>, <<"l", "l", "a", "m", "a", "3", ":", "8", "b">>, <<"g", "p", "t", "-", "4", "o", "-", "m", "i", "n", "i">>}

JiraDispatches ==
    {d \in [model : Models, model_name : JiraModelNames, api_key : ApiKeys,
            env_key : EnvKeys] :
        /\ d.model # "ollama" => d.model_name = <<"g", "p", "t", "-", "4", "o", "-", "m", "i", "n", "i">>
        /\ d.model # "gemini" => d.env_key = ""
        /\ d.model \in {"ollama", "mistral"} => d.api_key = ""}

AgentErrors ==
    {Error("UnexpectedModelBehavior",
           <<"E", "x", "c", "e", "e", "d", "e", "d", " ", "m", "a", "x", "i", 
          "m", "u", "m", " ", "r", "e", "t", "r", "i", "e", "s", " ", "(", 
          "2", ")", " ", "f", "o", "r", " ", "r", "e", "s", "u", "l", "t", 
          " ", "v", "a", "l", "i", "d", "a", "t", "i", "o", "n">>),
     Error("UnexpectedModelBehavior", <<"R", "e", "c", "e", "i", "v", "e", "d", " ", "e", "m", "p", "t", 
          "y", " ", "m", "o", "d", "e", "l", " ", "r", "e", "s", "p", "o", 
          "n", "s", "e">>),
     Error("Exception", <<"C", "o", "n", "n", "e", "c", "t", "i", "o", "n", " ", "r", "e", 
          "f", "u", "s", "e", "d">>)}

FallbackContents ==
    {<<>>, NotJson, EpicDoc, FencedEpicDoc, MixedDoc, NoTaskDoc, TasksTextDoc,
     NoKeyDoc, ArrayDoc, TextItemDoc, TextThenEpicDoc}

NextJira ==
    \/ \E input \in TaskLists : post_process_tasks_call(input)
    \/ \E d \in JiraDispatches :
          extract_jira_tasks_call(d.model, d.model_name, d.api_key, d.env_key)
    \/ extract_jira_tasks_request
    \/ \E input \in TaskLists :
          extract_jira_tasks_response("tasks", input, Error("", <<>>))
    \/ extract_jira_tasks_response("CancelledError", <<>>, Error("", <<>>))
    \/ \E e \in AgentErrors : extract_jira_tasks_response(e.type, <<>>, e)
    \/ \E outcome \in {"Exception", "CancelledError"} :
          extract_jira_tasks_fallback_response(outcome, <<>>)
    \/ \E raw_content \in FallbackContents :
          extract_jira_tasks_fallback_response("content", raw_content)

SpecJira == Init /\ [][NextJira]_vars

\* process_transcript on one short text, next to extract_jira_tasks
NextProcessor ==
    \/ NextJira
    \/ \E d \in Dispatches :
          process_transcript_call(d.model, d.model_name, d.api_key, d.env_key, 2, 0, 3)
    \/ process_transcript_split
    \/ process_transcript_request
    \/ \E outcome \in {"summary", "unexpected", "invalid", "Exception", "CancelledError"} :
          process_transcript_response(outcome)
    \/ process_transcript_return

SpecProcessor == Init /\ [][NextProcessor]_vars

Providers == {"claude", "ollama", "gemini", "groq", "openai"}

ConfigurationError(run) ==
    \/ run.model \notin Providers
    \/ run.model \in {"claude", "groq", "openai"} /\ run.api_key = ""

\* C13: process_transcript and extract_jira_tasks called with a provider
\* outside claude, ollama, gemini, groq, openai, or with claude, groq or
\* openai and an empty stored key, end with the configuration error and
\* have issued no request: neither the model request nor a fallback request,
\* and nothing is returned.
C13_ConfigurationError ==
    /\ (chunkRun.pc # "none" /\ ConfigurationError(chunkRun))
          => /\ chunkRun.pc = "done"
             /\ chunkRun.ret = "raised"
             /\ chunkRun.requests = <<>>
             /\ chunkRun.all_json_data = <<>>
    /\ (jiraRun.op = "extract_jira_tasks" /\ ConfigurationError(jiraRun))
          => /\ jiraRun.pc = "done"
             /\ jiraRun.ret = "raised"
             /\ jiraRun.raised = "ValueError"
             /\ jiraRun.requests = <<>>
             /\ jiraRun.result = <<>>

C13_Witness ==
    /\ jiraRun.op = "extract_jira_tasks"
    /\ jiraRun.model = "groq"
    /\ jiraRun.api_key = ""
    /\ jiraRun.ret = "raised"

C13_TranscriptWitness ==
    /\ chunkRun.model = "mistral"
    /\ chunkRun.ret = "raised"

\* C14 as claimed: no task that extract_jira_tasks returns has type Epic,
\* in any letter case, on the schema path and on the fallback path alike.
C14_Original ==
    (jiraRun.op = "extract_jira_tasks" /\ jiraRun.ret = "returned")
        => \A k \in DOMAIN jiraRun.result :
              lower(jiraRun.result[k].type) # <<"e", "p", "i", "c">>

\* the schema path alone returns no Epic
C14_SchemaPath ==
    (jiraRun.op = "extract_jira_tasks" /\ jiraRun.ret = "returned"
     /\ jiraRun.fallback = "none")
        => \A k \in DOMAIN jiraRun.result :
              lower(jiraRun.result[k].type) # <<"e", "p", "i", "c">>

C14_SchemaWitness ==
    /\ jiraRun.op = "extract_jira_tasks"
    /\ jiraRun.ret = "returned"
    /\ jiraRun.fallback = "none"
    /\ \E k \in DOMAIN jiraRun.tasks : jiraRun.tasks[k].type = <<"E", "p", "i", "c">>
    /\ jiraRun.result # <<>>

Plausible(task) == is_valid_english(strip(task.summary))

\* the input tasks that pass the check, in input order
Kept == SelectSeq(jiraRun.tasks, Plausible)

PostProcessed ==
    /\ jiraRun.op \in {"_post_process_tasks", "extract_jira_tasks"}
    /\ jiraRun.ret = "returned"
    /\ jiraRun.fallback = "none"

Severe(description) ==
    \E word \in {<<"o", "u", "t", "a", "g", "e">>, <<"b", "l", "o", "c", "k", "i", "n", "g">>, <<"d", "o", "w", "n">>, <<"5", "0", "0">>} :
        in_str(word, lower(description))

\* C15: _post_process_tasks gives a task priority High when its description
\* contains outage, blocking, down or 500 in any letter case and its
\* priority is Low, Lowest or Medium, and leaves the priority as it was in
\* every other case; High and Highest are never lowered.
C15_PriorityUpward ==
    PostProcessed =>
        \A k \in DOMAIN jiraRun.result :
            /\ k <= Len(Kept)
            /\ jiraRun.result[k].priority =
                  IF /\ Severe(Kept[k].description)
                     /\ Kept[k].priority \in {<<"L", "o", "w">>, <<"L", "o", "w", "e", "s", "t">>, <<"M", "e", "d", "i", "u", "m">>}
                  THEN <<"H", "i", "g", "h">>
                  ELSE Kept[k].priority

C15_Witness ==
    /\ jiraRun.op = "_post_process_tasks"
    /\ Len(jiraRun.result) = 2
    /\ Len(Kept) = 2
    /\ Severe(Kept[1].description)
    /\ Kept[1].priority = <<"L", "o", "w">>
    /\ jiraRun.result[1].priority = <<"H", "i", "g", "h">>
    /\ Severe(Kept[2].description)
    /\ Kept[2].priority = <<"H", "i", "g", "h", "e", "s", "t">>
    /\ jiraRun.result[2].priority = <<"H", "i", "g", "h", "e", "s", "t">>

\* the task came from the input task: the task itself, or its cleaned form
CleanedFrom(out, task) ==
    \/ out = task
    \/ /\ out.description = task.description
       /\ out.assignee = task.assignee
       /\ endswith(out.summary, Tail(strip(task.summary)))

Issued == \E k \in DOMAIN jiraRun.requests : jiraRun.requests[k] = "fallback"

ClaimedMarkers ==
    {<<"0", ".", "5", "b">>, <<"1", "b">>, <<"1", ".", "1", "b">>, <<"t", "i", "n", "y">>, <<"m", "i", "n", "i">>, <<"s", "m", "a", "l", "l">>}

FallbackCondition(markers) ==
    /\ jiraRun.model = "ollama"
    /\ jiraRun.error.type = "UnexpectedModelBehavior"
    /\ \E marker \in markers : in_str(marker, lower(jiraRun.model_name))

\* C17 as claimed: the fallback request is issued exactly when the provider
\* is ollama, the schema round trip failed with a model-behaviour error and
\* the model name contains 0.5b, 1b, 1.1b, tiny, mini or small.
C17_Original ==
    (jiraRun.op = "extract_jira_tasks" /\ jiraRun.pc \in {"fallback", "done"})
        => (Issued <=> FallbackCondition(ClaimedMarkers))

\* C17: the fallback request is issued exactly when the provider is ollama,
\* the schema round trip failed with a model-behaviour error and the lowered
\* model name contains 0.5b, 0_5b, 1b, 1.1b, tiny, mini or small; a call
\* that returns after the fallback request returns the fallback's task list
\* as it is, and a failed call without the fallback request has made at most
\* the one request and ends with an error.
C17_Fallback ==
    (jiraRun.op = "extract_jira_tasks" /\ jiraRun.pc \in {"fallback", "done"})
        => /\ Issued <=> FallbackCondition(ClaimedMarkers \cup {<<"0", "_", "5", "b">>})
           /\ (Issued /\ jiraRun.ret = "returned")
                 => fallback_extract(jiraRun.content).tasks = Some(jiraRun.result)
           /\ (~Issued /\ jiraRun.error # NoError)
                 => /\ jiraRun.ret = "raised"
                    /\ Len(jiraRun.requests) <= 1

C17_Witness ==
    /\ jiraRun.op = "extract_jira_tasks"
    /\ jiraRun.model_name = <<"q", "w", "e", "n", "2", ":", "0", "_", "5", "b">>
    /\ Issued
    /\ jiraRun.ret = "returned"
    /\ jiraRun.result # <<>>

C17_NoFallbackWitness ==
    /\ jiraRun.op = "extract_jira_tasks"
    /\ jiraRun.model = "ollama"
    /\ jiraRun.model_name = <<"l", "l", "a", "m", "a", "3", ":", "8", "b">>
    /\ jiraRun.error.type = "UnexpectedModelBehavior"
    /\ jiraRun.ret = "raised"

NoRecoveryContents == {<<>>, NotJson, ArrayDoc, NoKeyDoc, TasksTextDoc}

\* C18: when the response to the fallback request is empty, is not JSON, or
\* holds no list under "tasks", extract_jira_tasks ends with an error and
\* returns nothing.
C18_NoRecovery ==
    (/\ jiraRun.op = "extract_jira_tasks"
     /\ jiraRun.fallback = "content"
     /\ jiraRun.content \in NoRecoveryContents)
        => /\ jiraRun.pc = "done"
           /\ jiraRun.ret = "raised"
           /\ jiraRun.raised \in {"ValueError", "UnexpectedModelBehavior"}
           /\ jiraRun.result = <<>>

C18_Witness ==
    /\ jiraRun.op = "extract_jira_tasks"
    /\ jiraRun.fallback = "content"
    /\ jiraRun.content = TasksTextDoc
    /\ jiraRun.ret = "raised"
    /\ jiraRun.raised = "ValueError"

----------------------------------------------------------------------------
(* DatabaseManager: the settings rows (id = '1')                            *)

\* SELECT ... FROM table WHERE id = '1', fetchone()
fetchone(table) == IF table # <<>> THEN Some(table[1]) ELSE None

\* a column of a fetched row, NULL when there is no row
column(row, name) == IF row = None THEN None ELSE row[1][name]

\* UPDATE table SET col = val, ... WHERE id = '1'
update_settings(table, fields) == [i \in DOMAIN table |-> set_fields(table[i], fields)]

Masked == "********"

\* the mutant: every provider of the list has the column of openai
api_key_name_openai(provider) ==
    IF provider \in {"openai", "claude", "groq", "ollama", "gemini"}
    THEN Some("openaiApiKey")
    ELSE None

\* provider_list and api_key_name of save_api_key and get_api_key
api_key_name(provider) ==
    IF provider = "openai" THEN Some("openaiApiKey")
    ELSE IF provider = "claude" THEN Some("anthropicApiKey")
    ELSE IF provider = "groq" THEN Some("groqApiKey")
    ELSE IF provider = "ollama" THEN Some("ollamaApiKey")
    ELSE IF provider = "gemini" THEN Some("geminiApiKey")
    ELSE None

\* provider_list and api_key_name of save_transcript_api_key
transcript_api_key_name(provider) ==
    IF provider = "localWhisper" THEN Some("whisperApiKey")
    ELSE IF provider = "deepgram" THEN Some("deepgramApiKey")
    ELSE IF provider = "elevenLabs" THEN Some("elevenLabsApiKey")
    ELSE IF provider = "groq" THEN Some("groqApiKey")
    ELSE IF provider = "openai" THEN Some("openaiApiKey")
    ELSE None

\* INSERT INTO settings (id, provider, model, whisperModel, {api_key_name})
settings_row(name, api_key) ==
    [c \in {"id", "provider", "model", "whisperModel", "groqApiKey", "openaiApiKey",
            "anthropicApiKey", "ollamaApiKey", "geminiApiKey"} |->
        IF c = "id" THEN Some("1")
        ELSE IF c = "provider" THEN Some("openai")
        ELSE IF c = "model" THEN Some("gpt-4o-2024-11-20")
        ELSE IF c = "whisperModel" THEN Some("large-v3")
        ELSE IF c = name THEN Some(api_key)
        ELSE None]

\* INSERT INTO transcript_settings (id, provider, model, {api_key_name})
transcript_settings_row(name, api_key) ==
    [c \in {"id", "provider", "model", "whisperApiKey", "deepgramApiKey",
            "elevenLabsApiKey", "groqApiKey", "openaiApiKey"} |->
        IF c = "id" THEN Some("1")
        ELSE IF c = "provider" THEN Some("localWhisper")
        ELSE IF c = "model" THEN Some("large-v3")
        ELSE IF c = name THEN Some(api_key)
        ELSE None]

\* a call on the settings rows starts: its arguments are kept in local
CallConfig(t, op, pc, local) ==
    /\ tasks[t].op = "idle"
    /\ clock < MaxClock
    /\ clock' = clock + 1
    /\ tasks' = [tasks EXCEPT ![t] = [op |-> op, id |-> "", now |-> clock + 1,
                                      pc |-> pc, tc |-> 0, arg |-> NoArg,
                                      local |-> local]]
    /\ UNCHANGED <<writer, readers, work, meetings, summary_processes,
                   transcript_chunks, transcripts, lastOp, chunkRun, jiraRun,
                   settings, transcript_settings, jira_settings, hub>>

\* a call on the settings rows raises before it opens a connection
RaiseConfig(op, local) ==
    /\ clock < MaxClock
    /\ clock' = clock + 1
    /\ lastOp' = [op |-> op, id |-> "", now |-> clock + 1, arg |-> NoArg,
                  outcome |-> "raised", ret |-> "ValueError", data |-> Some(local)]
    /\ UNCHANGED <<tasks, writer, readers, work, meetings, summary_processes,
                   transcript_chunks, transcripts, chunkRun, jiraRun,
                   settings, transcript_settings, jira_settings, hub>>

\* the SELECT of a transaction: the shared lock is held until its end
SelectConfig(t, table, pc) ==
    /\ readers' = readers \cup {t}
    /\ tasks' = [tasks EXCEPT ![t].local =
                    [field \in DOMAIN @ \cup {"existing"} |->
                        IF field = "existing" THEN fetchone(table) ELSE @[field]],
                                 ![t].pc = pc]
    /\ UNCHANGED <<clock, writer, work, meetings, summary_processes,
                   transcript_chunks, transcripts, lastOp, chunkRun, jiraRun,
                   settings, transcript_settings, jira_settings, hub>>

(* DatabaseManager.save_api_key *)
save_api_key_call(t, api_key, provider) ==
    /\ tasks[t].op = "idle"
    /\ LET local == [api_key |-> api_key, provider |-> provider, before |-> settings]
       IN IF api_key_name(provider) = None
          THEN RaiseConfig("save_api_key", local)
          ELSE CallConfig(t, "save_api_key", "select", local)

\* SELECT id FROM settings WHERE id = '1'
save_api_key_select(t) ==
    /\ At(t, "save_api_key", "select")
    /\ SelectConfig(t, settings, "update")

\* UPDATE settings SET {api_key_name} = ? WHERE id = '1', or the INSERT
save_api_key_update(t) ==
    /\ At(t, "save_api_key", "update")
    /\ LET c == tasks[t].local
           name == api_key_name(c.provider)[1]
           w == IF c.existing # None
                THEN [DB EXCEPT !.settings =
                         update_settings(@, << <<name, Some(c.api_key)>> >>)]
                ELSE [DB EXCEPT !.settings = Append(@, settings_row(name, c.api_key))]
       IN TakeWriteLock(t, w)
    /\ Goto(t, "commit")
    /\ UNCHANGED <<clock, meetings, summary_processes, transcript_chunks,
                   transcripts, lastOp, chunkRun, jiraRun, settings,
                   transcript_settings, jira_settings, hub>>

save_api_key_commit(t) ==
    /\ At(t, "save_api_key", "commit")
    /\ CommitTxn(t)
    /\ EndedWith(t, NoArg, "returned", "None", Some(tasks[t].local))
    /\ UNCHANGED <<clock, chunkRun, jiraRun, hub>>

(* DatabaseManager.get_api_key *)
get_api_key_call(t, provider) ==
    /\ tasks[t].op = "idle"
    /\ LET local == [provider |-> provider, before |-> settings]
       IN IF api_key_name(provider) = None
          THEN RaiseConfig("get_api_key", local)
          ELSE CallConfig(t, "get_api_key", "select", local)

\* SELECT {api_key_name} FROM settings WHERE id = '1';
\* return row[0] if row and row[0] else ""
get_api_key_select(t) ==
    /\ At(t, "get_api_key", "select")
    /\ LET c == tasks[t].local
           value == column(fetchone(settings), api_key_name(c.provider)[1])
       IN EndedWith(t, NoArg, "returned",
                    IF value # None /\ value[1] # "" THEN value[1] ELSE "",
                    Some(c))
    /\ UNCHANGED <<clock, writer, readers, work, meetings, summary_processes,
                   transcript_chunks, transcripts, chunkRun, jiraRun,
                   settings, transcript_settings, jira_settings, hub>>

(* DatabaseManager.save_transcript_api_key *)
save_transcript_api_key_call(t, api_key, provider) ==
    /\ tasks[t].op = "idle"
    /\ LET local == [api_key |-> api_key, provider |-> provider,
                     before |-> transcript_settings]
       IN IF transcript_api_key_name(provider) = None
          THEN RaiseConfig("save_transcript_api_key", local)
          ELSE CallConfig(t, "save_transcript_api_key", "select", local)

\* SELECT id FROM transcript_settings WHERE id = '1'
save_transcript_api_key_select(t) ==
    /\ At(t, "save_transcript_api_key", "select")
    /\ SelectConfig(t, transcript_settings, "update")

\* UPDATE transcript_settings SET {api_key_name} = ? WHERE id = '1', or the
\* INSERT
save_transcript_api_key_update(t) ==
    /\ At(t, "save_transcript_api_key", "update")
    /\ LET c == tasks[t].local
           name == transcript_api_key_name(c.provider)[1]
           w == IF c.existing # None
                THEN [DB EXCEPT !.transcript_settings =
                         update_settings(@, << <<name, Some(c.api_key)>> >>)]
                ELSE [DB EXCEPT !.transcript_settings =
                         Append(@, transcript_settings_row(name, c.api_key))]
       IN TakeWriteLock(t, w)
    /\ Goto(t, "commit")
    /\ UNCHANGED <<clock, meetings, summary_processes, transcript_chunks,
                   transcripts, lastOp, chunkRun, jiraRun, settings,
                   transcript_settings, jira_settings, hub>>

save_transcript_api_key_commit(t) ==
    /\ At(t, "save_transcript_api_key", "commit")
    /\ CommitTxn(t)
    /\ EndedWith(t, NoArg, "returned", "None", Some(tasks[t].local))
    /\ UNCHANGED <<clock, chunkRun, jiraRun, hub>>

(* DatabaseManager.save_jira_config *)
MaskedToken == <<"*", "*", "*", "*", "*", "*", "*", "*">>

\* not api_token or api_token.strip() == '' or api_token == '********'
\* (the empty tuple is None and '')
no_token(api_token) ==
    api_token = <<>> \/ strip(api_token) = <<>> \/ api_token = MaskedToken

\* the mutant: the token of the call is written as it is
token_to_write_given(existing, api_token) == api_token

\* the api_token the UPDATE or INSERT writes
token_to_write(existing, api_token) ==
    IF existing # None /\ no_token(api_token) THEN existing[1].api_token
    ELSE api_token

\* raise ValueError("API Token is required for new configuration")
token_required(existing, api_token) ==
    /\ no_token(api_token)
    /\ existing = None \/ existing[1].api_token = <<>>

save_jira_config_call(t, url, email, api_token, default_project_key, default_issue_type) ==
    /\ tasks[t].op = "idle"
    /\ LET local == [url |-> url, email |-> email, api_token |-> api_token,
                     default_project_key |-> default_project_key,
                     default_issue_type |-> default_issue_type,
                     before |-> jira_settings]
       IN IF url = "" \/ email = ""
          THEN RaiseConfig("save_jira_config", local)
          ELSE CallConfig(t, "save_jira_config", "select", local)

\* SELECT id, api_token FROM jira_settings WHERE id = '1'
save_jira_config_select(t) ==
    /\ At(t, "save_jira_config", "select")
    /\ SelectConfig(t, jira_settings, "update")

\* the test of the token, then the UPDATE or the INSERT
save_jira_config_update(t) ==
    /\ At(t, "save_jira_config", "update")
    /\ LET c == tasks[t].local
           row == [id |-> "1", url |-> c.url, email |-> c.email,
                   api_token |-> token_to_write(c.existing, c.api_token),
                   default_project_key |-> c.default_project_key,
                   default_issue_type |-> c.default_issue_type]
           w == IF c.existing # None
                THEN [DB EXCEPT !.jira_settings = [i \in DOMAIN @ |-> row]]
                ELSE [DB EXCEPT !.jira_settings = Append(@, row)]
       IN IF token_required(c.existing, c.api_token)
          THEN \* rollback, and the error is raised again
               /\ Release(t)
               /\ EndedWith(t, NoArg, "raised", "ValueError", Some(c))
          ELSE /\ TakeWriteLock(t, w)
               /\ Goto(t, "commit")
               /\ UNCHANGED lastOp
    /\ UNCHANGED <<clock, meetings, summary_processes, transcript_chunks,
                   transcripts, chunkRun, jiraRun, settings,
                   transcript_settings, jira_settings, hub>>

save_jira_config_commit(t) ==
    /\ At(t, "save_jira_config", "commit")
    /\ CommitTxn(t)
    /\ EndedWith(t, NoArg, "returned", "None", Some(tasks[t].local))
    /\ UNCHANGED <<clock, chunkRun, jiraRun, hub>>

(* DatabaseManager.get_jira_config *)
get_jira_config_call(t) ==
    /\ tasks[t].op = "idle"
    /\ CallConfig(t, "get_jira_config", "select", [before |-> jira_settings])

\* SELECT url, email, api_token, default_project_key, default_issue_type
\* FROM jira_settings WHERE id = '1'
get_jira_config_select(t) ==
    /\ At(t, "get_jira_config", "select")
    /\ LET row == fetchone(jira_settings)
       IN IF row # None
          THEN EndedWith(t, NoArg, "returned", "dict",
                   Some([url |-> row[1].url, email |-> row[1].email,
                         api_token |-> row[1].api_token,
                         default_project_key |-> row[1].default_project_key,
                         default_issue_type |-> row[1].default_issue_type]))
          ELSE EndedWith(t, NoArg, "returned", "None", None)
    /\ UNCHANGED <<clock, writer, readers, work, meetings, summary_processes,
                   transcript_chunks, transcripts, chunkRun, jiraRun,
                   settings, transcript_settings, jira_settings, hub>>

ApiKeyValues == {"sk-1", "sk-2", Masked}
SettingsProviders == {"openai", "claude", "groq", "ollama", "gemini", "mistral"}
TranscriptProviders == {"deepgram", "claude"}
ApiTokens == {<<>>, <<" ">>, MaskedToken, <<"t", "1">>, <<"t", "2">>}

JiraConfigs ==
    {[url |-> "", email |-> "a@x.io", default_project_key |-> None],
     [url |-> "https://a.atlassian.net", email |-> "", default_project_key |-> None],
     [url |-> "https://a.atlassian.net", email |-> "a@x.io",
      default_project_key |-> None],
     [url |-> "https://b.atlassian.net", email |-> "b@x.io",
      default_project_key |-> Some("PRJ")]}

NextConfig ==
    \/ \E k \in ApiKeyValues, p \in SettingsProviders : save_api_key_call("t1", k, p)
    \/ save_api_key_select("t1")
    \/ save_api_key_update("t1")
    \/ save_api_key_commit("t1")
    \/ \E p \in SettingsProviders : get_api_key_call("t1", p)
    \/ get_api_key_select("t1")
    \/ \E k \in ApiKeyValues, p \in TranscriptProviders :
          save_transcript_api_key_call("t1", k, p)
    \/ save_transcript_api_key_select("t1")
    \/ save_transcript_api_key_update("t1")
    \/ save_transcript_api_key_commit("t1")
    \/ \E c \in JiraConfigs, token \in ApiTokens :
          save_jira_config_call("t1", c.url, c.email, token, c.default_project_key,
                                None)
    \/ save_jira_config_select("t1")
    \/ save_jira_config_update("t1")
    \/ save_jira_config_commit("t1")
    \/ get_jira_config_call("t1")
    \/ get_jira_config_select("t1")

SpecConfig == Init /\ [][NextConfig]_vars

\* the call that ended last, with its arguments and the table as it was
\* when the call began
LastCall == lastOp.data[1]

StoredToken(table) == IF table = <<>> THEN <<>> ELSE table[1].api_token

\* C19: save_jira_config with a url, an email and an api_token that is
\* None, blank or '********': when a configuration with a non-empty token
\* is stored, the call writes the url, the email and the defaults of the
\* call and leaves the stored api_token as it was; when no configuration or
\* no token is stored, the call raises and the stored configuration is as
\* it was.
C19_MaskedTokenKept ==
    (/\ lastOp.op = "save_jira_config"
     /\ LastCall.url # "" /\ LastCall.email # ""
     /\ \/ LastCall.api_token = <<>>
        \/ LastCall.api_token \in {<<" ">>, MaskedToken})
        => IF StoredToken(LastCall.before) # <<>>
           THEN /\ lastOp.outcome = "returned"
                /\ jira_settings =
                      <<[id |-> "1", url |-> LastCall.url, email |-> LastCall.email,
                         api_token |-> StoredToken(LastCall.before),
                         default_project_key |-> LastCall.default_project_key,
                         default_issue_type |-> LastCall.default_issue_type]>>
           ELSE /\ lastOp.outcome = "raised"
                /\ jira_settings = LastCall.before

C19_Witness ==
    /\ lastOp.op = "save_jira_config"
    /\ lastOp.outcome = "returned"
    /\ LastCall.api_token = MaskedToken
    /\ LastCall.before # <<>>
    /\ LastCall.before[1].url # LastCall.url
    /\ jira_settings[1].url = LastCall.url
    /\ jira_settings[1].api_token = <<"t", "1">>

C19_RaisedWitness ==
    /\ lastOp.op = "save_jira_config"
    /\ lastOp.outcome = "raised"
    /\ LastCall.url # "" /\ LastCall.email # ""
    /\ LastCall.api_token = <<" ">>
    /\ jira_settings = <<>>

\* the key stored for the provider in the table, "" when none is stored
StoredKey(table, name) ==
    IF column(fetchone(table), name) = None THEN "" ELSE column(fetchone(table), name)[1]

KeyName(call) ==
    IF lastOp.op = "save_api_key" THEN api_key_name(call.provider)
    ELSE transcript_api_key_name(call.provider)

KeyTable == IF lastOp.op = "save_api_key" THEN settings ELSE transcript_settings

\* C20 as claimed: save_api_key and save_transcript_api_key called with
\* '********' leave the stored key as it was when a key is stored, and
\* raise when none is stored.
C20_Original ==
    (/\ lastOp.op \in {"save_api_key", "save_transcript_api_key"}
     /\ LastCall.api_key = Masked
     /\ KeyName(LastCall) # None)
        => IF StoredKey(LastCall.before, KeyName(LastCall)[1]) # ""
           THEN /\ lastOp.outcome = "returned"
                /\ StoredKey(KeyTable, KeyName(LastCall)[1]) =
                      StoredKey(LastCall.before, KeyName(LastCall)[1])
           ELSE lastOp.outcome = "raised"

SupportedProviders == {"openai", "claude", "groq", "ollama", "gemini"}

\* what get_api_key gives for the provider on the table
KeyOf(table, provider) == StoredKey(table, api_key_name(provider)[1])

\* C21: for a provider of the list and a non-empty key, save_api_key
\* followed by get_api_key of the same provider returns the key, with or
\* without a settings row before, and the keys of the other providers are
\* as they were; save_api_key and get_api_key of a provider outside the
\* list raise and leave the settings as they were.
C21_RoundTrip ==
    /\ [](lastOp.op \in {"save_api_key", "get_api_key"} =>
            IF LastCall.provider \in SupportedProviders
            THEN /\ lastOp.outcome = "returned"
                 /\ lastOp.op = "save_api_key" =>
                       /\ KeyOf(settings, LastCall.provider) = LastCall.api_key
                       /\ \A q \in SupportedProviders \ {LastCall.provider} :
                             KeyOf(settings, q) = KeyOf(LastCall.before, q)
                 /\ lastOp.op = "get_api_key" => settings = LastCall.before
            ELSE /\ lastOp.outcome = "raised"
                 /\ settings = LastCall.before)
    /\ [][(/\ lastOp.op = "save_api_key"
           /\ lastOp.outcome = "returned"
           /\ lastOp' # lastOp
           /\ lastOp'.op = "get_api_key"
           /\ lastOp'.data[1].provider = LastCall.provider)
              => /\ lastOp'.outcome = "returned"
                 /\ lastOp'.ret = LastCall.api_key]_vars

C21_Witness ==
    /\ lastOp.op = "get_api_key"
    /\ LastCall.provider = "gemini"
    /\ lastOp.ret = "sk-2"
    /\ KeyOf(settings, "openai") = "sk-1"

C21_UnsupportedWitness ==
    /\ lastOp.op = "save_api_key"
    /\ LastCall.provider = "mistral"
    /\ lastOp.outcome = "raised"
    /\ settings # <<>>

----------------------------------------------------------------------------
(* ConnectionManager: connect, disconnect, send_message_to_chat and         *)
(* _flush_pending_messages, a step for each await                           *)

besideHub == <<tasks, writer, readers, work, meetings, summary_processes,
               transcript_chunks, transcripts, lastOp, chunkRun, jiraRun,
               settings, transcript_settings, jira_settings>>

\* active_connections is a dict: the keys in insertion order with their values
keys(d) == {d[k].id : k \in DOMAIN d}

\* d.get(key)
dict_get(d, key) ==
    IF key \in keys(d) THEN Some(d[CHOOSE k \in DOMAIN d : d[k].id = key].ws) ELSE None

\* d[key] = ws: a present key keeps its place
dict_set(d, key, ws) ==
    IF key \in keys(d)
    THEN [k \in DOMAIN d |-> IF d[k].id = key THEN [id |-> key, ws |-> ws] ELSE d[k]]
    ELSE Append(d, [id |-> key, ws |-> ws])

\* del d[key]
RECURSIVE dict_del(_, _)
dict_del(d, key) ==
    IF d = <<>> THEN <<>>
    ELSE IF d[1].id = key THEN dict_del(Tail(d), key)
    ELSE <<d[1]>> \o dict_del(Tail(d), key)

\* list.pop(i), i counted from 1; IndexError when the list is shorter
pop(list, i) ==
    IF i > Len(list) THEN [raised |-> TRUE, list |-> list]
    ELSE [raised |-> FALSE,
          list |-> SubSeq(list, 1, i - 1) \o SubSeq(list, i + 1, Len(list))]

reversed(s) == [k \in DOMAIN s |-> s[Len(s) + 1 - k]]

\* for i in order: self.pending_messages.pop(i)
RECURSIVE pop_all(_, _)
pop_all(list, order) ==
    IF order = <<>> THEN [raised |-> FALSE, list |-> list]
    ELSE IF pop(list, order[1]).raised THEN pop(list, order[1])
    ELSE pop_all(pop(list, order[1]).list, Tail(order))

\* the mutant: the indices are popped in the order of the sends
remove_sent_in_order(list, sent_indices) == pop_all(list, sent_indices)

\* for i in reversed(sent_indices): self.pending_messages.pop(i)
remove_sent(list, sent_indices) == pop_all(list, reversed(sent_indices))

HubCall(c) == hub.calls[c]

\* the call of coroutine c ends; next is what the coroutine does then
HubEnded(h, c, next, ret, queued, after) ==
    [h EXCEPT !.calls[c] = next,
              !.pending_messages = after,
              !.last = [op |-> hub.calls[c].op, caller |-> c,
                        connection_id |-> hub.calls[c].connection_id,
                        message |-> hub.calls[c].message, ret |-> ret,
                        queued |-> queued, results |-> h.calls[c].results,
                        delivered_to |-> h.calls[c].delivered_to,
                        sent |-> h.calls[c].sent,
                        started |-> hub.calls[c].started,
                        before |-> hub.pending_messages, after |-> after,
                        broke |-> h.calls[c].broke,
                        connected |-> keys(hub.active_connections),
                        requested |-> h.calls[c].requested,
                        active |-> h.calls[c].active]]

Handling(ws, connection_id) ==
    [NoHubCall EXCEPT !.op = "handle", !.pc = "receive", !.ws = ws,
                      !.connection_id = connection_id]

Closed(ws) == [NoHubCall EXCEPT !.op = "closed", !.pc = "closed", !.ws = ws]

(* handle_extension_websocket: extension_manager.connect(websocket, connection_id) *)
connect_call(ws, connection_id) ==
    /\ HubCall(ws).op = "idle"
    /\ clock < MaxClock
    /\ clock' = clock + 1
    /\ hub' = [hub EXCEPT !.calls[ws] =
                  [NoHubCall EXCEPT !.op = "connect", !.pc = "accept", !.ws = ws,
                                    !.connection_id = connection_id,
                                    !.started = hub.pending_messages]]
    /\ UNCHANGED besideHub

\* the end of _flush_pending_messages: the sent messages are removed; an
\* IndexError leaves connect through its handler, which returns False
flush_end(h, ws) ==
    LET c == h.calls[ws]
        r == remove_sent(h.pending_messages, c.sent_indices)
    IN IF r.raised
       THEN HubEnded([h EXCEPT !.open = @ \ {ws}], ws, Closed(ws), "False", FALSE, r.list)
       ELSE HubEnded(h, ws, Handling(ws, c.connection_id), "True", FALSE, r.list)

\* for i, msg in enumerate(self.pending_messages): the next turn, up to the
\* send, or the end of the loop
flush_next(h, ws, i) ==
    IF i <= Len(h.pending_messages)
    THEN [h EXCEPT !.calls[ws].pc = "flush_send", !.calls[ws].i = i,
                   !.calls[ws].msg = h.pending_messages[i]]
    ELSE flush_end(h, ws)

\* await websocket.accept() ends; the connection is registered and the
\* flush runs up to its first send
connect_accept(ws, accepted) ==
    /\ HubCall(ws).op = "connect" /\ HubCall(ws).pc = "accept"
    /\ LET c == HubCall(ws)
           h == [hub EXCEPT
                    !.open = @ \cup {ws},
                    !.active_connections = dict_set(@, c.connection_id, ws),
                    !.connection_info = @ \cup {c.connection_id}]
       IN IF ~accepted
          THEN hub' = HubEnded(hub, ws, Closed(ws), "False", FALSE, hub.pending_messages)
          ELSE IF hub.pending_messages = <<>>
          THEN hub' = HubEnded(h, ws, Handling(ws, c.connection_id), "True", FALSE, <<>>)
          ELSE hub' = flush_next(h, ws, 1)
    /\ UNCHANGED <<clock, besideHub>>

\* await websocket.send_text(json.dumps(msg)) ends
flush_send(ws, sent) ==
    /\ HubCall(ws).op = "connect" /\ HubCall(ws).pc = "flush_send"
    /\ sent => ws \in hub.open
    /\ LET c == HubCall(ws)
       IN IF sent
          THEN hub' = [hub EXCEPT
                          !.delivered = Append(@, [ws |-> ws, message |-> c.msg,
                                                   queued |-> TRUE]),
                          !.calls[ws].sent_indices = Append(@, c.i),
                          !.calls[ws].sent = Append(@, c.msg),
                          !.calls[ws].pc = "flush_sleep"]
          ELSE \* break
               hub' = flush_end([hub EXCEPT !.calls[ws].broke = TRUE], ws)
    /\ UNCHANGED <<clock, besideHub>>

\* await asyncio.sleep(1.0) ends
flush_sleep(ws) ==
    /\ HubCall(ws).op = "connect" /\ HubCall(ws).pc = "flush_sleep"
    /\ hub' = flush_next(hub, ws, HubCall(ws).i + 1)
    /\ UNCHANGED <<clock, besideHub>>

\* WebSocketDisconnect in the receive loop: extension_manager.disconnect
disconnect(ws) ==
    /\ HubCall(ws).op = "handle"
    /\ hub' = [hub EXCEPT
                  !.active_connections = dict_del(@, HubCall(ws).connection_id),
                  !.connection_info = @ \ {HubCall(ws).connection_id},
                  !.open = @ \ {ws},
                  !.calls[ws] = Closed(ws)]
    /\ UNCHANGED <<clock, besideHub>>

(* ConnectionManager.send_message_to_chat *)
\* return {"success": success_count > 0, ...}
send_return(h, c) == HubEnded(h, c, NoHubCall, "returned", FALSE, h.pending_messages)

\* the send to one connection ended: the result that is appended
send_result(h, c, sent) ==
    LET call == h.calls[c]
    IN IF sent
       THEN [h EXCEPT
                !.delivered = Append(@, [ws |-> call.ws, message |-> call.message,
                                         queued |-> FALSE]),
                !.calls[c].delivered_to = @ \cup {call.ws},
                \* self.connection_info[conn_id][...]: KeyError is caught
                !.calls[c].results =
                    Append(@, [connection_id |-> call.connection_id,
                               success |-> call.connection_id \in h.connection_info])]
       ELSE [h EXCEPT
                !.calls[c].results =
                    Append(@, [connection_id |-> call.connection_id, success |-> FALSE])]

send_message_to_chat_call(c, connection_id) ==
    /\ HubCall(c).op = "idle"
    /\ clock < MaxClock
    /\ clock' = clock + 1
    /\ LET message == clock + 1
           call == [NoHubCall EXCEPT !.op = "send_message_to_chat",
                                     !.message = message,
                                     !.requested = connection_id,
                                     !.active = keys(hub.active_connections),
                                     !.started = hub.pending_messages]
           h == [hub EXCEPT !.calls[c] = call]
       IN IF hub.active_connections = <<>>
          THEN hub' = [HubEnded(h, c, NoHubCall, "returned", TRUE,
                                Append(hub.pending_messages, message))
                       EXCEPT !.last.op = "send_message_to_chat",
                              !.last.message = message]
          ELSE IF connection_id # None
                  /\ connection_id[1] \in keys(hub.active_connections)
          THEN hub' = [h EXCEPT
                          !.calls[c].pc = "send_one",
                          !.calls[c].connection_id = connection_id[1],
                          !.calls[c].ws =
                              dict_get(hub.active_connections, connection_id[1])[1]]
          ELSE hub' = [h EXCEPT
                          !.calls[c].pc = "send_all", !.calls[c].i = 1,
                          !.calls[c].size = Len(hub.active_connections),
                          !.calls[c].connection_id = hub.active_connections[1].id,
                          !.calls[c].ws = hub.active_connections[1].ws]
    /\ UNCHANGED besideHub

\* await self.active_connections[connection_id].send_text(payload) ends
send_message_to_chat_one(c, sent) ==
    /\ HubCall(c).op = "send_message_to_chat" /\ HubCall(c).pc = "send_one"
    /\ sent => HubCall(c).ws \in hub.open
    /\ hub' = send_return(send_result(hub, c, sent), c)
    /\ UNCHANGED <<clock, besideHub>>

\* await websocket.send_text(payload) ends in the broadcast loop, and the
\* loop takes the next item of the dict: RuntimeError when its size changed
send_message_to_chat_all(c, sent) ==
    /\ HubCall(c).op = "send_message_to_chat" /\ HubCall(c).pc = "send_all"
    /\ sent => HubCall(c).ws \in hub.open
    /\ LET h == send_result(hub, c, sent)
           call == h.calls[c]
       IN IF Len(h.active_connections) # call.size
          THEN hub' = HubEnded(h, c, NoHubCall, "raised", FALSE, h.pending_messages)
          ELSE IF call.i + 1 <= call.size
          THEN hub' = [h EXCEPT
                          !.calls[c].i = call.i + 1,
                          !.calls[c].connection_id = h.active_connections[call.i + 1].id,
                          !.calls[c].ws = h.active_connections[call.i + 1].ws]
          ELSE hub' = send_return(h, c)
    /\ UNCHANGED <<clock, besideHub>>

Connecting == {ws \in Sockets : HubCall(ws).op = "connect"}

\* one extension connects at a time
NextHub ==
    \/ \E ws \in Sockets, id \in ConnectionIds :
          Connecting = {} /\ connect_call(ws, id)
    \/ \E ws \in Sockets, accepted \in BOOLEAN : connect_accept(ws, accepted)
    \/ \E ws \in Sockets, sent \in BOOLEAN : flush_send(ws, sent)
    \/ \E ws \in Sockets : flush_sleep(ws)
    \/ \E ws \in Sockets : disconnect(ws)
    \/ \E c \in Senders, id \in {None} \cup {Some(k) : k \in ConnectionIds} :
          send_message_to_chat_call(c, id)
    \/ \E c \in Senders, sent \in BOOLEAN : send_message_to_chat_one(c, sent)
    \/ \E c \in Senders, sent \in BOOLEAN : send_message_to_chat_all(c, sent)

SpecHub == Init /\ [][NextHub]_vars

----------------------------------------------------------------------------
(* The pending queue *)

prefix_of(s, n) == SubSeq(s, 1, n)

rest_of(s, n) == SubSeq(s, n + 1, Len(s))

\* a send_message_to_chat call of sender c starts and ends in this step
SendEnds(c) ==
    /\ hub.calls[c].op = "idle"
    /\ hub'.last # hub.last
    /\ hub'.last.op = "send_message_to_chat"
    /\ hub'.last.caller = c

\* the message that was reported as queued is the new end of the queue
QueuedAtEnd ==
    (hub.last.op = "send_message_to_chat" /\ hub.last.queued) =>
       /\ hub.last.after = Append(hub.last.before, hub.last.message)
       /\ hub.last.delivered_to = {}

\* the connect that found queued messages sent the first of them, in their
\* order, to its socket and left the others in the queue
FlushedInOrder ==
    (/\ hub.last.op = "connect"
     /\ hub.last.started # <<>>
     /\ hub.last.ret = "True" \/ hub.last.sent # <<>>) =>
       /\ hub.last.ret = "True"
       /\ hub.last.sent = prefix_of(hub.last.before, Len(hub.last.sent))
       /\ hub.last.after = rest_of(hub.last.before, Len(hub.last.sent))
       /\ prefix_of(hub.last.before, Len(hub.last.started)) = hub.last.started
       /\ (~hub.last.broke => hub.last.after = <<>>)
       /\ \A k \in DOMAIN hub.last.sent :
             \E d \in DOMAIN hub.delivered :
                hub.delivered[d] = [ws |-> hub.last.caller,
                                    message |-> hub.last.sent[k],
                                    queued |-> TRUE]

\* C22: a message sent while no extension is connected is appended to the
\* pending queue and reported as queued; a connect that finds queued
\* messages sends them to the new extension in queue order and removes
\* them, and when a send fails that message and all later ones stay queued
\* in their order (one extension connecting at a time)
C22_PendingQueue ==
    /\ [](QueuedAtEnd /\ FlushedInOrder)
    /\ [][\A c \in Senders :
            (SendEnds(c) /\ hub.active_connections = <<>>) =>
               /\ hub'.last.queued
               /\ hub'.pending_messages =
                     Append(hub.pending_messages, hub'.last.message)]_vars

\* a flush of two queued messages whose second send failed
C22_Witness ==
    /\ hub.last.op = "connect" /\ hub.last.ret = "True" /\ hub.last.broke
    /\ Len(hub.last.started) = 2
    /\ Len(hub.last.sent) = 1
    /\ hub.last.after = <<hub.last.started[2]>>

\* a flush that sent the whole queue
C22_FlushedWitness ==
    /\ hub.last.op = "connect" /\ hub.last.ret = "True" /\ ~hub.last.broke
    /\ Len(hub.last.sent) = 2
    /\ hub.last.after = <<>>

Queue(s) == {s[k] : k \in DOMAIN s}

\* C23 as stated: the message of every send_message_to_chat call that ended
\* was delivered to at least one connected extension or is in the pending
\* queue
C23_Original ==
    hub.last.op = "send_message_to_chat" =>
       \/ hub.last.delivered_to # {}
       \/ hub.last.message \in Queue(hub.last.after)

----------------------------------------------------------------------------
(* Calls for two meetings, from two tasks *)

NextMeetings ==
    \/ Next
    \/ \E t \in Tasks, m \in MeetingIds :
          save_meeting_transcript(t, m, <<"a">>, <<"1", "0">>)
    \/ \E t \in Tasks, m \in MeetingIds :
          save_transcript_call(t, m, <<"x", "y">>, 5000, 1000)
    \/ \E t \in Tasks : save_transcript_update(t)
    \/ \E t \in Tasks : save_transcript_insert(t)
    \/ \E t \in Tasks : save_transcript_commit(t)

SpecMeetings == Init /\ [][NextMeetings]_vars

\* the committed rows of meeting m, table by table, in table order
MeetingRows(m) ==
    [meetings |-> SelectSeq(meetings, LAMBDA row : row.id = m),
     transcripts |-> SelectSeq(transcripts, LAMBDA row : row.meeting_id = m),
     transcript_chunks |-> SelectSeq(transcript_chunks, LAMBDA row : row.meeting_id = m),
     summary_processes |-> SelectSeq(summary_processes, LAMBDA row : row.meeting_id = m)]

MeetingOps == {"create_process", "update_process", "save_transcript",
               "update_meeting_summary", "delete_meeting"}

\* C24: no step of a create_process, update_process, save_transcript,
\* update_meeting_summary or delete_meeting call for one meeting changes a
\* meetings, transcripts, transcript_chunks or summary_processes row of
\* another meeting, however the calls of two tasks interleave
C24_OtherMeetingsUntouched ==
    [][\A t \in Tasks, b \in MeetingIds :
          (/\ tasks'[t] # tasks[t]
           /\ tasks[t].op \in MeetingOps
           /\ tasks[t].id # b) =>
             MeetingRows(b)' = MeetingRows(b)]_vars

\* delete_meeting removed a meeting while a row of another meeting is stored
C24_Witness ==
    /\ lastOp.op = "delete_meeting" /\ lastOp.ret = "True"
    /\ MeetingRows(lastOp.id).meetings = <<>>
    /\ \E b \in MeetingIds \ {lastOp.id} :
          MeetingRows(b).meetings # <<>> \/ MeetingRows(b).summary_processes # <<>>

\* create_process updated the row of its meeting while another meeting has one
C24_UpdateWitness ==
    /\ lastOp.op = "create_process" /\ lastOp.outcome = "returned"
    /\ MeetingRows(lastOp.id).summary_processes # <<>>
    /\ MeetingRows(lastOp.id).summary_processes[1].created_at # lastOp.now
    /\ \E b \in MeetingIds \ {lastOp.id} : MeetingRows(b).summary_processes # <<>>

----------------------------------------------------------------------------
(* update_process: metadata that cannot be serialized, and a meeting        *)
(* without a process row                                                    *)

\* the step in which an update_process call ends
UpdateEnds ==
    /\ lastOp' # lastOp
    /\ lastOp'.op = "update_process"

BadMetadata(arg) == arg.metadata # None /\ ~serializable(arg.metadata[1])

BadResult(arg) == arg.result # None /\ ~serializable(arg.result[1])

\* C25: an update_process whose metadata cannot be JSON-serialized, its
\* other arguments being valid, returns without raising; the row of the
\* meeting has the status and updated_at of the call and the chunk_count,
\* processing_time, result and error that were supplied, and its metadata
\* is what it was before the call
C25_BadMetadataSkipped ==
    [][(UpdateEnds /\ BadMetadata(lastOp'.arg)
           /\ ~BadResult(lastOp'.arg)) =>
          /\ lastOp'.outcome = "returned"
          /\ DOMAIN summary_processes' = DOMAIN summary_processes
          /\ \A i \in DOMAIN summary_processes :
                LET r == summary_processes[i]
                    q == summary_processes'[i]
                    a == lastOp'.arg
                IN IF r.meeting_id # lastOp'.id THEN q = r
                   ELSE /\ q.metadata = r.metadata
                        /\ q.status = a.status
                        /\ q.updated_at = lastOp'.now
                        /\ a.chunk_count # None => q.chunk_count = a.chunk_count[1]
                        /\ a.processing_time # None =>
                              q.processing_time = a.processing_time[1]
                        /\ truthy_dict(a.result) =>
                              q.result = Some(json_dumps(a.result[1]))
                        /\ truthy_str(a.error) =>
                              q.error = Some(sanitized_error(a.error[1]))]_vars

\* an update_process with metadata that cannot be serialized has returned:
\* the row has the new status, time and chunk_count and the metadata an
\* earlier call stored
C25_Witness ==
    /\ lastOp.op = "update_process"
    /\ lastOp.outcome = "returned"
    /\ lastOp.arg.metadata = Some(BadDict)
    /\ lastOp.arg.chunk_count = Some(3)
    /\ HasProcess(summary_processes, lastOp.id)
    /\ LET r == ProcessRow(summary_processes, lastOp.id)
       IN /\ r.metadata = Some(json_dumps(GoodDict))
          /\ r.chunk_count = 3
          /\ r.status = lastOp.arg.status
          /\ r.updated_at = lastOp.now

\* C26: an update_process for a meeting that has no process row returns
\* normally and summary_processes is what it was: no row is created
C26_NoRowNoChange ==
    [][(UpdateEnds /\ ~HasProcess(summary_processes, lastOp'.id)
           /\ ~BadResult(lastOp'.arg)) =>
          /\ lastOp'.outcome = "returned"
          /\ summary_processes' = summary_processes]_vars

\* update_process has returned for a meeting without a row while another
\* meeting has one
C26_Witness ==
    /\ lastOp.op = "update_process"
    /\ lastOp.outcome = "returned"
    /\ ~HasProcess(summary_processes, lastOp.id)
    /\ summary_processes # <<>>
    /\ lastOp.arg.status = FAILED
    /\ lastOp.arg.result # None

----------------------------------------------------------------------------
(* The chunks of a transcript *)

\* the stride of the split: chunk_size - overlap, and for an overlap that
\* is not smaller than chunk_size, chunk_size - max(0, chunk_size - 100)
Stride(chunk_size, overlap) ==
    IF overlap < chunk_size THEN chunk_size - overlap
    ELSE IF chunk_size <= OverlapClamp THEN chunk_size ELSE OverlapClamp

----------------------------------------------------------------------------
(* TranscriptProcessor.chat_ollama_model: the streamed response of a chunk  *)

MaxParts == 3

\* the content of a streamed part: '', '{', '}' or 'x'
Parts == {<<>>, <<"{">>, <<"}">>, <<"x">>}

\* what client.chat gives: the parts it will deliver, and how the stream
\* ends ("" for its normal end)
Streams ==
    {[parts |-> p, fails |-> f] :
        p \in UNION {[1..n -> Parts] : n \in 0..MaxParts},
        f \in {"", "Exception", "CancelledError"}}

\* full_response after the parts: their concatenation in arrival order
RECURSIVE concat(_)
concat(parts) ==
    IF parts = <<>> THEN <<>> ELSE parts[1] \o concat(Tail(parts))

\* SummaryResponse.model_validate_json(text) accepts the text: of the texts
\* over the characters of Parts, the object '{}'
model_validate_json(text) == text = <<"{", "}">>

\* the mutant: the async for loop may be left after any part
stream_left_early(run) == TRUE

\* async for part in response: the stream has no further part
stream_ended(run) == run.consumed = Len(run.stream.parts)

\* response = await client.chat(model=..., stream=True, format=...)
chat_ollama_model_chat(stream) ==
    /\ chunkRun.pc = "await"
    /\ chunkRun.model = "ollama"
    /\ chunkRun' = [chunkRun EXCEPT !.pc = "stream", !.stream = stream,
                                    !.consumed = 0, !.full_response = <<>>,
                                    !.validations = <<>>,
                                    !.streamed = chunkRun.i]
    /\ UNCHANGED <<clock, tasks, writer, readers, work, meetings,
                   summary_processes, transcript_chunks, transcripts, lastOp, jiraRun,
                   settings, transcript_settings, jira_settings, hub>>

\* content = part['message']['content']; full_response += content
chat_ollama_model_part ==
    /\ chunkRun.pc = "stream"
    /\ chunkRun.consumed < Len(chunkRun.stream.parts)
    /\ chunkRun' = [chunkRun EXCEPT
                       !.consumed = @ + 1,
                       !.full_response = @ \o chunkRun.stream.parts[chunkRun.consumed + 1]]
    /\ UNCHANGED <<clock, tasks, writer, readers, work, meetings,
                   summary_processes, transcript_chunks, transcripts, lastOp, jiraRun,
                   settings, transcript_settings, jira_settings, hub>>

\* a call of the validator on text, as chunk i has it
Validation(run, by) ==
    [chunk |-> run.i, by |-> by, text |-> run.full_response,
     consumed |-> run.consumed]

\* the loop is over: the stream raised, or full_response is validated and
\* the summary returned, or full_response is returned as it is and
\* process_transcript validates it again, which raises
chat_ollama_model_return ==
    /\ chunkRun.pc = "stream"
    /\ stream_ended(chunkRun)
    /\ LET run == chunkRun
           once == [run EXCEPT !.validations =
                       Append(@, Validation(run, "chat_ollama_model"))]
           twice == [once EXCEPT !.validations =
                       Append(@, Validation(run, "process_transcript"))]
       IN IF run.stream.fails # ""
          THEN chunkRun' = responded(run, run.stream.fails)
          ELSE IF model_validate_json(run.full_response)
          THEN chunkRun' = responded(once, "summary")
          ELSE chunkRun' = responded(twice, "invalid")
    /\ UNCHANGED <<clock, tasks, writer, readers, work, meetings,
                   summary_processes, transcript_chunks, transcripts, lastOp, jiraRun,
                   settings, transcript_settings, jira_settings, hub>>

\* process_transcript with the ollama model, on a text of one chunk and on
\* a text of two
NextOllama ==
    \/ \E n \in {1, LongText} :
          process_transcript_call("ollama", <<"P", "h", "i", "4">>, "", "", 2, 0, n)
    \/ process_transcript_split
    \/ process_transcript_request
    \/ \E stream \in Streams : chat_ollama_model_chat(stream)
    \/ chat_ollama_model_part
    \/ chat_ollama_model_return
    \/ process_transcript_return

SpecOllama == Init /\ [][NextOllama]_vars

\* the object the schema accepts
SummaryJson == <<"{", "}">>

\* C28: the schema validator is called only when the stream of the chunk
\* has ended, on the concatenation of all its parts in arrival order, never
\* on a proper prefix; and the payload of a chunk is in the output of
\* process_transcript only if that concatenation passed the validation
C28_ValidatedAfterStream ==
    LET stream == chunkRun.stream
        k == chunkRun.streamed
    IN /\ \A v \in DOMAIN chunkRun.validations :
             LET call == chunkRun.validations[v]
             IN /\ call.chunk = k
                /\ stream.fails = ""
                /\ call.consumed = Len(stream.parts)
                /\ call.text = concat(stream.parts)
       /\ (k >= 1 /\ Len(chunkRun.responses) >= k) =>
             /\ chunkRun.responses[k] = "summary" <=>
                   (stream.fails = "" /\ concat(stream.parts) = SummaryJson)
             /\ chunkRun.responses[k] = "summary" =>
                   \E v \in DOMAIN chunkRun.validations :
                      chunkRun.validations[v].text = SummaryJson
             /\ (stream.fails = "" /\ concat(stream.parts) # SummaryJson) =>
                   /\ chunkRun.responses[k] = "invalid"
                   /\ Len(chunkRun.validations) = 2
       /\ chunkRun.model = "ollama" =>
             chunkRun.all_json_data = SuccessfulPayloads(chunkRun.responses, 1)

\* the stream of the second chunk was '{', '}', 'x': its prefix '{}' is
\* valid and the whole is not; the validator saw the whole text, twice, and
\* the output holds the first chunk only
C28_Witness ==
    /\ chunkRun.ret = "returned"
    /\ chunkRun.streamed = 2
    /\ chunkRun.stream = [parts |-> << <<"{">>, <<"}">>, <<"x">> >>, fails |-> ""]
    /\ chunkRun.responses = <<"summary", "invalid">>
    /\ Len(chunkRun.validations) = 2
    /\ \A v \in DOMAIN chunkRun.validations :
          chunkRun.validations[v].text = <<"{", "}", "x">>
    /\ chunkRun.all_json_data = <<model_dump_json(summary_of(1))>>

\* a stream with an empty part was accepted
C28_AcceptedWitness ==
    /\ chunkRun.ret = "returned"
    /\ chunkRun.stream = [parts |-> << <<"{">>, <<>>, <<"}">> >>, fails |-> ""]
    /\ chunkRun.responses = <<"summary">>
    /\ chunkRun.all_json_data = <<model_dump_json(summary_of(1))>>

----------------------------------------------------------------------------
(* TranscriptProcessor._validate_summary_quality *)

MaxBlocks == 2

\* "No blocker", "None", "TBD", "N/A", "Transcript Chunk"
placeholder_patterns ==
    << <<"N", "o", " ", "b", "l", "o", "c", "k", "e", "r">>,
       <<"N", "o", "n", "e">>,
       <<"T", "B", "D">>,
       <<"N", "/", "A">>,
       <<"T", "r", "a", "n", "s", "c", "r", "i", "p", "t", " ", "C", "h", "u", "n", "k">> >>

MinContentLen == 10

\* the contents of a block: '', 'ok', 'N/A', 'TBD, ask Ann', 'Ship the build',
\* ten blanks and 'ab', 'nonetheless ok'
Contents ==
    { <<>>,
      <<"o", "k">>,
      <<"N", "/", "A">>,
      <<"T", "B", "D", ",", " ", "a", "s", "k", " ", "A", "n", "n">>,
      <<"S", "h", "i", "p", " ", "t", "h", "e", " ", "b", "u", "i", "l", "d">>,
      <<" ", " ", " ", " ", " ", " ", " ", " ", " ", " ", "a", "b">>,
      <<"n", "o", "n", "e", "t", "h", "e", "l", "e", "s", "s", " ", "o", "k">> }

\* the placeholders found in the content, in the order of the patterns
found_placeholders(content) ==
    SelectSeq(placeholder_patterns, LAMBDA pattern : in_str(lower(pattern), lower(content)))

\* not block.content or len(block.content.strip()) < 10
short_content(content) ==
    content = <<>> \/ Len(strip(content)) < MinContentLen

\* the warnings of one block of ImmediateActionItems
action_item_warnings(content) ==
    [k \in DOMAIN found_placeholders(content) |->
        [section |-> "ImmediateActionItems", found |-> found_placeholders(content)[k]]]
    \o (IF short_content(content)
        THEN <<[section |-> "ImmediateActionItems", found |-> "short"]>>
        ELSE <<>>)

\* the warnings of one block of NextSteps
next_step_warnings(content) ==
    [k \in DOMAIN found_placeholders(content) |->
        [section |-> "NextSteps", found |-> found_placeholders(content)[k]]]

\* both, for each content of the pool
block_warnings ==
    [content \in Contents |->
        [ImmediateActionItems |-> action_item_warnings(content),
         NextSteps |-> next_step_warnings(content)]]

RECURSIVE section_warnings(_, _)
section_warnings(blocks, section) ==
    IF blocks = <<>> THEN <<>>
    ELSE block_warnings[blocks[1]][section] \o section_warnings(Tail(blocks), section)

\* warnings = []; ...; return warnings
validate_summary_quality(summary) ==
    section_warnings(summary.ImmediateActionItems, "ImmediateActionItems")
    \o section_warnings(summary.NextSteps, "NextSteps")

\* the block lists of a section
BlockLists == UNION {[1..n -> Contents] : n \in 0..MaxBlocks}

validate_summary_quality_call(summary) ==
    /\ chunkRun.pc = "none"
    /\ chunkRun' = [NoChunkRun EXCEPT
                       !.pc = "done", !.summary = summary,
                       !.warnings = validate_summary_quality(summary)]
    /\ jiraRun' = NoJiraRun
    /\ UNCHANGED <<clock, tasks, writer, readers, work, meetings,
                   summary_processes, transcript_chunks, transcripts, lastOp,
                   settings, transcript_settings, jira_settings, hub>>

\* one summary is validated in a behaviour
NextQuality ==
    /\ chunkRun.pc = "none"
    /\ \E items \in BlockLists, steps \in BlockLists :
          validate_summary_quality_call([ImmediateActionItems |-> items,
                                         NextSteps |-> steps])

SpecQuality == Init /\ [][NextQuality]_vars

\* the content holds one of the forbidden placeholders, in any letter case
HasPlaceholder(content) ==
    \E k \in DOMAIN placeholder_patterns :
       in_str(lower(placeholder_patterns[k]), lower(content))

\* the rule of the claim for a block, whatever its section
Flagged(content) ==
    HasPlaceholder(content) \/ content = <<>> \/ Len(content) < MinContentLen

Blocks(summary) ==
    {summary.ImmediateActionItems[k] : k \in DOMAIN summary.ImmediateActionItems}
    \cup {summary.NextSteps[k] : k \in DOMAIN summary.NextSteps}

\* C29 as stated: _validate_summary_quality returns at least one warning
\* exactly when some block of ImmediateActionItems or of NextSteps holds a
\* forbidden placeholder or has a content that is empty or shorter than 10
\* characters, the same rule for both sections
C29_Original ==
    chunkRun.warnings # <<>> <=> \E content \in Blocks(chunkRun.summary) : Flagged(content)

----------------------------------------------------------------------------
(* JiraTaskSuggestion: the summary validator *)

\* '', '  Fix login bug  ', 'Refactoring', 'Fix 42 bugs 7', '12 34 56 ab',
\* 'Fix a bug', ten blanks, 'a b c d e f', 'x1 y2 z3 q4'
SummaryTexts ==
    { <<>>,
      <<" ", " ", "F", "i", "x", " ", "l", "o", "g", "i", "n", " ", "b", "u", "g", " ", " ">>,
      <<"R", "e", "f", "a", "c", "t", "o", "r", "i", "n", "g">>,
      <<"F", "i", "x", " ", "4", "2", " ", "b", "u", "g", "s", " ", "7">>,
      <<"1", "2", " ", "3", "4", " ", "5", "6", " ", "a", "b">>,
      <<"F", "i", "x", " ", "a", " ", "b", "u", "g">>,
      <<" ", " ", " ", " ", " ", " ", " ", " ", " ", " ">>,
      <<"a", " ", "b", " ", "c", " ", "d", " ", "e", " ", "f">>,
      <<"x", "1", " ", "y", "2", " ", "z", "3", " ", "q", "4">> }

\* a description the validator accepts, and one it rejects
DescriptionTexts ==
    { <<"T", "h", "e", " ", "l", "o", "g", "i", "n", " ", "p", "a", "g", "e", " ", "i", "s", " ", "d", "o", "w", "n", " ", "f", "o", "r", " ", "a", "l", "l", " ", "u", "s", "e", "r", "s">>,
      <<"T", "o", "o", " ", "s", "h", "o", "r", "t">> }

SuggestionInputs ==
    {RawTask(summary, description, priority, type) :
        summary \in SummaryTexts, description \in DescriptionTexts,
        priority \in {<<"l", "o", "w">>, <<"H", "i", "g", "h">>, <<"u", "r", "g", "e", "n", "t">>},
        type \in {<<"b", "u", "g">>, <<"E", "p", "i", "c">>, <<"t", "a", "s", "k">>}}

\* JiraTaskSuggestion(**d): the object, or ValidationError
JiraTaskSuggestion_call(d) ==
    /\ jiraRun.pc = "none"
    /\ jiraRun' = [NoJiraRun EXCEPT
                      !.pc = "done", !.op = "JiraTaskSuggestion", !.tasks = <<d>>,
                      !.result = IF JiraTaskSuggestion(d) = None THEN <<>>
                                 ELSE <<JiraTaskSuggestion(d)[1]>>,
                      !.ret = IF JiraTaskSuggestion(d) = None THEN "raised"
                              ELSE "returned"]
    /\ chunkRun' = NoChunkRun
    /\ UNCHANGED <<clock, tasks, writer, readers, work, meetings, summary_processes,
                   transcript_chunks, transcripts, lastOp, settings,
                   transcript_settings, jira_settings, hub>>

\* one object is constructed in a behaviour
NextSuggestion ==
    /\ jiraRun.pc = "none"
    /\ \E d \in SuggestionInputs : JiraTaskSuggestion_call(d)

SpecSuggestion == Init /\ [][NextSuggestion]_vars

\* the words of a text: its maximal runs without whitespace
Words(text) == str_split(text)

GoodWords(text) ==
    {k \in DOMAIN Words(text) :
        Len(Words(text)[k]) >= 2 /\ isalpha(Words(text)[k][1])}

\* the rule of the claim, on the trimmed summary
AcceptableSummary(text) ==
    /\ Len(strip(text)) >= 10
    /\ Len(Words(strip(text))) >= 2
    /\ 2 * Cardinality(GoodWords(strip(text))) >= Len(Words(strip(text)))

C30_TrimmedWitness ==
    /\ jiraRun.op = "JiraTaskSuggestion"
    /\ jiraRun.ret = "returned"
    /\ jiraRun.tasks[1].summary # strip(jiraRun.tasks[1].summary)
    /\ jiraRun.result[1].summary = <<"F", "i", "x", " ", "l", "o", "g", "i", "n", " ", "b", "u", "g">>

\* '12 34 56 ab', with one valid word of four, was rejected
C30_RejectedWitness ==
    /\ jiraRun.op = "JiraTaskSuggestion"
    /\ jiraRun.ret = "raised"
    /\ jiraRun.tasks[1].summary = <<"1", "2", " ", "3", "4", " ", "5", "6", " ", "a", "b">>
    /\ Len(strip(jiraRun.tasks[1].description)) >= MinDescriptionLen

----------------------------------------------------------------------------
(* The summaries _post_process_tasks returns *)

FirstWord(text) == IF str_split(text) = <<>> THEN <<>> ELSE lower(str_split(text)[1])

StartsWithVerb(text) == FirstWord(text) \in action_verbs

VerbPrefixes == {<<"F", "i", "x", " ">>, <<"R", "e", "s", "o", "l", "v", "e", " ">>, <<"A", "d", "d", "r", "e", "s", "s", " ">>}

Capitalized(text) == upper(<<text[1]>>) \o Tail(text)

\* C31: every task _post_process_tasks returns has a summary whose first
\* word, lower-cased, is one of the action verbs and whose first character
\* is an upper-case letter; when the first word of the input summary is not
\* an action verb, the returned summary is the input summary with exactly
\* one of 'Fix ', 'Resolve ', 'Address ' before it, and otherwise it is
\* the input summary with its first letter capitalized
C31_SummaryStartsWithVerb ==
    PostProcessed =>
        \A k \in DOMAIN jiraRun.result : k <= Len(Kept) =>
            LET out == jiraRun.result[k].summary
                summary == strip(Kept[k].summary)
            IN /\ StartsWithVerb(out)
               /\ \E u \in DOMAIN UpperLetters : out[1] = UpperLetters[u]
               /\ IF StartsWithVerb(summary)
                  THEN out = Capitalized(summary)
                  ELSE Cardinality({p \in VerbPrefixes : out = p \o summary}) = 1

\* 'Login error on checkout' came back with 'Fix ' and 'Database is down
\* again' with 'Resolve '
C31_Witness ==
    /\ jiraRun.op = "_post_process_tasks"
    /\ Len(jiraRun.result) = 2
    /\ ~StartsWithVerb(jiraRun.tasks[1].summary)
    /\ jiraRun.result[1].summary = <<"F", "i", "x", " ">> \o jiraRun.tasks[1].summary
    /\ ~StartsWithVerb(jiraRun.tasks[2].summary)
    /\ jiraRun.result[2].summary = <<"R", "e", "s", "o", "l", "v", "e", " ">> \o jiraRun.tasks[2].summary

\* 'update the api docs' came back capitalized, 'Plan the billing
\* migration' with 'Address '
C31_CapitalizedWitness ==
    /\ jiraRun.op = "_post_process_tasks"
    /\ Len(jiraRun.result) = 2
    /\ jiraRun.tasks[1].summary = <<"u", "p", "d", "a", "t", "e", " ", "t", "h", "e", " ", "a", "p", "i", " ", "d", "o", "c", "s">>
    /\ jiraRun.result[1].summary = <<"U", "p", "d", "a", "t", "e", " ", "t", "h", "e", " ", "a", "p", "i", " ", "d", "o", "c", "s">>
    /\ jiraRun.result[2].summary = <<"A", "d", "d", "r", "e", "s", "s", " ">> \o jiraRun.tasks[2].summary

----------------------------------------------------------------------------
(* The elements of the fallback response                                    *)

\* the array under "tasks" of a fallback response, when there is one
TaskArray(content) ==
    LET parsed == json_loads(strip_code_fence(content))
    IN IF parsed # None /\ parsed[1].kind = "object" /\ parsed[1].tasks # None
          /\ parsed[1].tasks[1].list
       THEN Some(parsed[1].tasks[1].items)
       ELSE None

\* the elements of the array that are valid tasks, in array order
ValidElements(items) ==
    validated(SelectSeq(items, LAMBDA item : item.object))

\* C32: whatever the elements of the "tasks" array of the fallback response
\* look like, the fallback returns the valid elements, in array order; an
\* element that is not valid, an element that is not an object included, is
\* dropped on its own.
C32_Original ==
    (/\ jiraRun.op = "extract_jira_tasks"
     /\ jiraRun.fallback = "content"
     /\ TaskArray(jiraRun.content) # None)
        => /\ jiraRun.ret = "returned"
           /\ jiraRun.result = ValidElements(TaskArray(jiraRun.content)[1])

\* the elements that are objects are validated one by one
C32_ObjectsOnly ==
    (/\ jiraRun.op = "extract_jira_tasks"
     /\ jiraRun.fallback = "content"
     /\ TaskArray(jiraRun.content) # None
     /\ \A k \in DOMAIN TaskArray(jiraRun.content)[1] :
            TaskArray(jiraRun.content)[1][k].object)
        => /\ jiraRun.ret = "returned"
           /\ jiraRun.result = ValidElements(TaskArray(jiraRun.content)[1])

C32_DroppedWitness ==
    /\ jiraRun.op = "extract_jira_tasks"
    /\ jiraRun.fallback = "content"
    /\ jiraRun.content = MixedDoc
    /\ jiraRun.ret = "returned"
    /\ Len(jiraRun.result) = 1

C32_LostWitness ==
    /\ jiraRun.op = "extract_jira_tasks"
    /\ jiraRun.fallback = "content"
    /\ jiraRun.content = TextThenEpicDoc
    /\ jiraRun.ret = "raised"
    /\ jiraRun.result = <<>>

----------------------------------------------------------------------------
(* _strip_code_fence on fenced and unfenced payloads                        *)

Fence == <<Backtick, Backtick, Backtick>>

\* JSON texts without whitespace at either end
JsonTexts ==
    {NoTaskDoc, ArrayDoc, EpicDoc, <<"{", "}">>, <<"1", "2">>, <<"n", "u", "l", "l">>,
     <<"\"", "a", " ", "b", "\"">>}

Blanks == {<<>>, <<" ">>, <<"\n">>, <<"\n", " ", " ">>, <<"\r", "\n", "\t">>}

Tags == {<<"j", "s", "o", "n">>, <<"J", "S", "O", "N">>, <<"J", "s", "o", "n">>}

\* how a text is wrapped: the whitespace before the fence, between fence and
\* tag, after the tag, before the closing fence, and after it
Wrappings ==
    [before : Blanks, tag_gap : {<<>>, <<" ">>}, tag : Tags,
     opened : {<<>>, <<"\n">>, <<"\n", " ", " ">>}, closing : {<<>>, <<"\n">>, <<"\n", " ", " ">>},
     after : {<<>>, <<"\n">>}]

wrap(w, j) ==
    w.before \o Fence \o w.tag_gap \o w.tag \o w.opened \o j \o w.closing \o Fence
        \o w.after

Fenced == {wrap(w, j) : w \in Wrappings, j \in JsonTexts}

Unfenced ==
    {b.before \o j \o b.after :
        b \in [before : Blanks, after : Blanks], j \in JsonTexts \cup {NotJson, <<>>}}

\* cleaned = self._strip_code_fence(raw_content)
strip_code_fence_call(payload) ==
    /\ jiraRun.pc = "none"
    /\ jiraRun' = [NoJiraRun EXCEPT
                      !.pc = "done", !.op = "_strip_code_fence", !.content = payload,
                      !.cleaned = strip_code_fence(payload), !.ret = "returned"]
    /\ chunkRun' = NoChunkRun
    /\ UNCHANGED <<clock, tasks, writer, readers, work, meetings, summary_processes,
                   transcript_chunks, transcripts, lastOp, settings,
                   transcript_settings, jira_settings, hub>>

\* the function is applied once in a behaviour
NextFence ==
    /\ jiraRun.pc = "none"
    /\ \E payload \in Fenced \cup Unfenced : strip_code_fence_call(payload)

SpecFence == Init /\ [][NextFence]_vars

\* C33: _strip_code_fence of a JSON text wrapped in fences with a json tag,
\* with whitespace or newlines around the fences, is that JSON text; of a
\* payload that, whitespace aside, does not start with a fence it is the
\* payload without the whitespace at its ends.
C33_FenceRemoved ==
    jiraRun.op = "_strip_code_fence" =>
        /\ \A j \in JsonTexts :
              (\E w \in Wrappings : jiraRun.content = wrap(w, j)) => jiraRun.cleaned = j
        /\ ~startswith(lstrip(jiraRun.content), Fence)
              => jiraRun.cleaned = strip(jiraRun.content)

C33_Witness ==
    /\ jiraRun.op = "_strip_code_fence"
    /\ jiraRun.content =
          Fence \o <<"j", "s", "o", "n", "\n", " ", " ">> \o NoTaskDoc \o <<"\n", " ", " ">> \o Fence
    /\ jiraRun.cleaned = NoTaskDoc

C33_UnfencedWitness ==
    /\ jiraRun.op = "_strip_code_fence"
    /\ jiraRun.content = <<"\n", " ", " ">> \o EpicDoc \o <<"\n">>
    /\ jiraRun.cleaned = EpicDoc

----------------------------------------------------------------------------
(* The connection a message is sent to                                      *)

\* the connections a send_message_to_chat call reports a result for
Addressed(op) == {op.results[k].connection_id : k \in DOMAIN op.results}

\* C34: a send_message_to_chat call that was given a connection_id sends to
\* that connection only; it sends to all connections only when it was given
\* no connection_id.
C34_Original ==
    (hub.last.op = "send_message_to_chat" /\ hub.last.requested # None)
        => /\ Addressed(hub.last) \subseteq {hub.last.requested[1]}
           /\ Cardinality(hub.last.delivered_to) <= 1

\* the call was given the id of a registered connection and sent to it alone
C34_DirectWitness ==
    /\ hub.last.op = "send_message_to_chat"
    /\ hub.last.requested = Some("c2")
    /\ Addressed(hub.last) = {"c2"}
    /\ Cardinality(keys(hub.active_connections)) = 2

\* the call was given an id that is not registered and sent to the others
C34_BroadcastWitness ==
    /\ hub.last.op = "send_message_to_chat"
    /\ hub.last.requested = Some("c2")
    /\ Addressed(hub.last) = {"c1"}
    /\ hub.last.delivered_to # {}

----------------------------------------------------------------------------
(* delete_meeting: all rows of the meeting, or none                         *)

\* the committed tables
Stored == <<meetings, transcripts, transcript_chunks, summary_processes>>

NoRows ==
    [meetings |-> <<>>, transcripts |-> <<>>, transcript_chunks |-> <<>>,
     summary_processes |-> <<>>]

\* C35: a delete_meeting call that returns True has removed the meetings row
\* and every transcripts, transcript_chunks and summary_processes row of its
\* meeting; no other step of the call, and no call that returns False
\* (meeting absent, or an error while deleting), changes a stored row.
C35_AllOrNothing ==
    [][\A t \in Tasks :
          (tasks[t].op = "delete_meeting" /\ tasks'[t] # tasks[t]) =>
             IF tasks'[t].op = "idle" /\ lastOp'.ret = "True"
             THEN MeetingRows(lastOp.id)' = NoRows /\ lastOp'.id = tasks[t].id
             ELSE /\ Stored' = Stored
                  /\ tasks'[t].op = "idle" => lastOp'.ret = "False"]_vars

\* the call returned True for a meeting and no row of it is left, while
\* the other meeting keeps its transcript rows
C35_Witness ==
    /\ lastOp.op = "delete_meeting" /\ lastOp.ret = "True"
    /\ MeetingRows(lastOp.id) = NoRows
    /\ \E b \in MeetingIds \ {lastOp.id} : MeetingRows(b).transcripts # <<>>

\* the DELETE statements of the call removed a meeting with a transcript
\* and are not committed yet
C35_PendingWitness ==
    \E t \in Tasks :
        /\ At(t, "delete_meeting", "commit")
        /\ MeetingRows(tasks[t].id).meetings # <<>>
        /\ MeetingRows(tasks[t].id).transcripts # <<>>
        /\ where_id(work.meetings, tasks[t].id) = {}
        /\ where_meeting_id(work.transcripts, tasks[t].id) = {}

\* the call returned False for a meeting that is stored, because another
\* connection holds the write lock, and the meeting is still stored
C35_FalseWitness ==
    /\ lastOp.op = "delete_meeting" /\ lastOp.ret = "False"
    /\ MeetingRows(lastOp.id).meetings # <<>>
    /\ writer # NoTask

----------------------------------------------------------------------------
(* Extensions that connect while another connect is flushing the queue      *)

\* handle_extension_websocket is started for every socket that arrives:
\* a connect may start while the connect of another socket is in a send or
\* a sleep of its flush
NextOverlap ==
    \/ \E ws \in Sockets, id \in ConnectionIds : connect_call(ws, id)
    \/ \E ws \in Sockets, accepted \in BOOLEAN : connect_accept(ws, accepted)
    \/ \E ws \in Sockets, sent \in BOOLEAN : flush_send(ws, sent)
    \/ \E ws \in Sockets : flush_sleep(ws)
    \/ \E ws \in Sockets : disconnect(ws)
    \/ \E c \in Senders, id \in {None} \cup {Some(k) : k \in ConnectionIds} :
          send_message_to_chat_call(c, id)
    \/ \E c \in Senders, sent \in BOOLEAN : send_message_to_chat_one(c, sent)
    \/ \E c \in Senders, sent \in BOOLEAN : send_message_to_chat_all(c, sent)

SpecOverlap == Init /\ [][NextOverlap]_vars

\* the deliveries of queued messages
Flushed == {d \in DOMAIN hub.delivered : hub.delivered[d].queued}

\* no queued message was delivered twice
FlushedOnce ==
    \A d, e \in Flushed :
        hub.delivered[d].message = hub.delivered[e].message => d = e

\* a connect that was accepted and sent queued messages returned True
FlushReturnedTrue ==
    (hub.last.op = "connect" /\ hub.last.sent # <<>>) => hub.last.ret = "True"

\* when the last flush has ended without a failed send the queue is empty
QueueEndsEmpty ==
    (/\ hub.last.op = "connect" /\ hub.last.sent # <<>> /\ ~hub.last.broke
     /\ Connecting = {}) => hub.pending_messages = <<>>

\* C36: also when a second extension connects while the queue is being
\* flushed to a first one, every queued message is delivered once, to one
\* extension, the queue ends empty, and both connect calls return True with
\* their connections registered.
C36_Original == FlushedOnce /\ FlushReturnedTrue /\ QueueEndsEmpty

\* one connect at a time: the three parts hold
C36_OneAtATime ==
    Cardinality(Connecting) <= 1 /\ FlushedOnce /\ FlushReturnedTrue /\ QueueEndsEmpty

\* a queued message went to both sockets
C36_TwiceWitness ==
    \E d, e \in Flushed :
        /\ hub.delivered[d].message = hub.delivered[e].message
        /\ hub.delivered[d].ws # hub.delivered[e].ws

\* the connect of the second socket sent queued messages and returned False
C36_FalseWitness ==
    /\ hub.last.op = "connect" /\ hub.last.sent # <<>> /\ hub.last.ret = "False"
    /\ hub.pending_messages = <<>>
    /\ hub.last.connection_id \in keys(hub.active_connections)

----------------------------------------------------------------------------
(* A client that connects again under its connection_id                     *)

Registered(h, id, ws) ==
    \E k \in DOMAIN h.active_connections :
        h.active_connections[k] = [id |-> id, ws |-> ws]

\* C37: a registered connection leaves active_connections only when the
\* handler of its own socket ends (or when its connection_id is registered
\* again): the disconnect of an old socket does not remove the connection a
\* client has made since under the same connection_id.
C37_Original ==
    [][\A id \in ConnectionIds, ws \in Sockets :
          (Registered(hub, id, ws) /\ ~Registered(hub', id, ws)) =>
             \/ hub'.calls[ws].op = "closed"
             \/ id \in keys(hub'.active_connections)]_vars

\* the handler of the second socket is running and its connection_id is not
\* registered: the disconnect of the first socket has removed it
C37_RemovedWitness ==
    /\ hub.calls["w1"].op = "closed"
    /\ hub.calls["w2"].op = "handle"
    /\ "w2" \in hub.open
    /\ hub.calls["w2"].connection_id \notin keys(hub.active_connections)

----------------------------------------------------------------------------
(* A broadcast while extensions connect and disconnect                      *)

\* the call that ended last was a broadcast
Broadcast ==
    /\ hub.last.op = "send_message_to_chat"
    /\ hub.last.requested = None
    /\ ~hub.last.queued

\* C38: a broadcast send_message_to_chat returns normally, with a result for
\* every connection that was active when it started, also when extensions
\* connected or disconnected while it was suspended in a send.
C38_Original ==
    Broadcast =>
        /\ hub.last.ret = "returned"
        /\ hub.last.active \subseteq Addressed(hub.last)

\* the broadcast ended with RuntimeError after an extension had connected
C38_RaisedWitness ==
    /\ Broadcast
    /\ hub.last.ret = "raised"
    /\ hub.last.active = {"c1"}
    /\ hub.last.connected = {"c1", "c2"}

\* a broadcast during which no extension connected or disconnected
C38_QuietWitness ==
    /\ Broadcast
    /\ hub.last.ret = "returned"
    /\ hub.last.active = {"c1", "c2"}
    /\ Addressed(hub.last) = {"c1", "c2"}

----------------------------------------------------------------------------
(* create_process on a meeting that has a process row                       *)

\* the row as create_process leaves it: five columns are written
Restarted(row, now) ==
    [row EXCEPT !.status = PENDING, !.updated_at = now, !.start_time = Some(now),
                !.error = None, !.result = None]

\* C39: a create_process call for a meeting that has a process row changes
\* status, updated_at, start_time, error and result of the row and leaves
\* created_at, end_time, chunk_count, processing_time and metadata as they
\* were.
C39_OnlyFiveColumns ==
    [][\A t \in Tasks :
          (/\ At(t, "create_process", "commit")
           /\ tasks'[t].op = "idle"
           /\ lastOp'.outcome = "returned"
           /\ HasProcess(summary_processes, tasks[t].id)) =>
             /\ HasProcess(summary_processes', tasks[t].id)
             /\ ProcessRow(summary_processes', tasks[t].id) =
                   Restarted(ProcessRow(summary_processes, tasks[t].id), tasks[t].now)]_vars

\* a PENDING row with the end_time, chunk_count and metadata of the run that
\* completed before
C39_Witness ==
    /\ lastOp.op = "create_process" /\ lastOp.outcome = "returned"
    /\ HasProcess(summary_processes, lastOp.id)
    /\ LET row == ProcessRow(summary_processes, lastOp.id)
       IN /\ row.status = PENDING
          /\ row.start_time = Some(lastOp.now)
          /\ row.end_time # None
          /\ row.chunk_count = 3
          /\ row.metadata # None
          /\ row.result = None

----------------------------------------------------------------------------
(* TranscriptProcessor.active_clients and cleanup                           *)

\* cleanup(): the clients are closed and the list is cleared; the calls that
\* are in flight go on
cleanup ==
    /\ chunkRun' = [chunkRun EXCEPT !.active_clients = <<>>]
    /\ jiraRun' = [jiraRun EXCEPT !.active_clients = <<>>]
    /\ UNCHANGED <<clock, tasks, writer, readers, work, meetings, summary_processes,
                   transcript_chunks, transcripts, lastOp, settings,
                   transcript_settings, jira_settings, hub>>

NextClients ==
    \/ NextProcessor
    \/ cleanup

SpecClients == Init /\ [][NextClients]_vars

\* the clients of the Ollama calls that have started and not ended
InFlight ==
    (IF chunkRun.pc = "await" /\ chunkRun.model = "ollama" THEN {chunkRun.i} ELSE {})
        \cup (IF jiraRun.pc = "fallback" THEN {"fallback"} ELSE {})

Listed ==
    {chunkRun.active_clients[k] : k \in DOMAIN chunkRun.active_clients}
        \cup {jiraRun.active_clients[k] : k \in DOMAIN jiraRun.active_clients}

\* chat_ollama_model or _fallback_extract_with_ollama starts in this step
OllamaCallStarts ==
    \/ chunkRun.pc = "chunk" /\ chunkRun'.pc = "await" /\ chunkRun.model = "ollama"
    \/ jiraRun.pc # "fallback" /\ jiraRun'.pc = "fallback"

\* C40: active_clients holds only clients of Ollama calls that are in
\* flight, each once: a call adds its client when it starts, and the client
\* is not in the list when the call has returned, raised or been cancelled,
\* also when cleanup() has cleared the list in between.
C40_OnlyInFlight ==
    /\ [](/\ Listed \subseteq InFlight
          /\ Len(chunkRun.active_clients) + Len(jiraRun.active_clients)
                <= Cardinality(InFlight))
    /\ [][OllamaCallStarts => Listed' = InFlight' /\ InFlight' # {}]_vars

\* a call was cancelled and its client is not in the list
C40_Witness ==
    /\ chunkRun.model = "ollama"
    /\ chunkRun.ret = "cancelled"
    /\ chunkRun.requests # <<>>
    /\ chunkRun.active_clients = <<>>

\* a call is in flight and its client is in the list
C40_InFlightWitness ==
    /\ jiraRun.pc = "fallback"
    /\ jiraRun.active_clients = <<"fallback">>

\* a call is in flight and cleanup() has cleared the list
C40_ClearedWitness ==
    /\ chunkRun.pc = "await" /\ chunkRun.model = "ollama"
    /\ chunkRun.requests = <<1>>
    /\ chunkRun.active_clients = <<>>

============================================================================
